---- MODULE Spec2Model ----
(***************************************************************************)
(* Model of the synchronization core of vtils (pthread build): the lazily  *)
(* boxed raw primitives (PointerValueStorage), Mutex<T> and its guard, the *)
(* reader-writer lock and the condition variable.                          *)
(*                                                                         *)
(* A heap instance of a box is named by the thread that allocated it (a    *)
(* thread allocates at most one instance per box); Null is the null        *)
(* pointer / "no thread".                                                  *)
(*                                                                         *)
(* Every operation reaches its raw primitive through PointerValue::Get().  *)
(* When the pointer is installed, the acquire load of the (never again     *)
(* written) pointer and the raw call form one step; when it is null the    *)
(* call goes through PointerValueStorage::Initialize(): the allocation,    *)
(* the compare-exchange, ptr->Initialize() and the raw call are steps of   *)
(* their own.                                                              *)
(***************************************************************************)
EXTENDS Integers, FiniteSets, Sequences, TLC

\* Number of threads using a mutex or a reader-writer lock.
NumThreads == 3

Threads == 1..NumThreads

\* nullptr, and "no owner".
Null == 0

\* The objects of the program: two Mutex<bool>, one ConditionVariable and
\* one ReadWriteLock<T>, each holding one PointerValue box.
Mutexes == {"m1", "m2"}
Boxes == Mutexes \cup {"cv", "rw"}

VARIABLES
    slot,        \* PointerValueStorage::m_inner of each box
    heap,        \* live heap allocations of each box (new without delete)
    initialized, \* instances of each box on which T::Initialize() has run
    owner,       \* MutexImpl::m_mutex of each instance: the locking thread
    guards,      \* live MutexGuard objects of each thread (by mutex)
    value,       \* Mutex<T>::m_value of each mutex (T is bool)
    bound,       \* CondVarImpl::m_mutex of each instance
    waiters,     \* CondVarImpl::m_cond of each instance: the parked threads
    rwWriter,    \* ReadWriteLockImpl::m_rwlock of each instance: the writer
    rwReaders,   \* ... and the read locks of each thread
    rguards,     \* live ReaderGuard objects of each thread
    wguards,     \* live WriterGuard objects of each thread
    pc,          \* position of each thread
    top,         \* the operation the thread is in
    tbox,        \* the box the thread is accessing
    tinst,       \* ptr / the instance GetPointer() returned to the thread
    wraw,        \* mutex.Raw() of the guard passed to a wait
    ret,         \* the optional / bool the thread's last call returned
    dl,          \* end: the deadline of the timed wait the thread is in
    now,         \* std::chrono::steady_clock::now(), in ticks
    counter,     \* Mutex<int>::m_value of the mutex used as a counter
    reg,         \* the value a thread's increment has read and not written
    finalized,   \* what ~PointerValueStorage() of each box found and did
    acall,       \* the last call of an alignment function and its result
    sg,          \* the ScopeGuard objects declared in a scope, in order
    path,        \* where control is: in the scope, or the way it left it
    mobjs,       \* the impl::MemoryMapped objects that exist
    mptr,        \* impl::MemoryMapped::m_ptr of each object (0 is nullptr)
    mlen,        \* impl::MemoryMapped::m_len of each object
    dirty,       \* the mapped pages hold changes not written to the file
    mcall,       \* the last MemoryMapped operation, its OS calls and result
    sleep,       \* the last Windows WaitUntil and its SleepConditionVariableSRW
    step,        \* the calls a thread of a scenario has made of its program
    aborted      \* the process was terminated by a failed V_ASSERT / V_ABORT

vars == <<slot, heap, initialized, owner, guards, value, bound, waiters,
          rwWriter, rwReaders, rguards, wguards,
          pc, top, tbox, tinst, wraw, ret, dl, now, counter, reg, finalized,
          acall, sg, path, mobjs, mptr, mlen, dirty, mcall, sleep,
          step, aborted>>

\* The parts of the state by the object they belong to.
boxVars == <<slot, heap, initialized>>
mutexVars == <<owner, guards>>
condVars == <<bound, waiters>>
rwVars == <<rwWriter, rwReaders, rguards, wguards>>
localVars == <<top, tbox, tinst, wraw, ret, dl>>
\* The state only some of the programs below use.
guardVars == <<sg, path>>
mapVars == <<mobjs, mptr, mlen, dirty, mcall>>
otherVars == <<counter, reg, finalized, acall, guardVars, mapVars, sleep>>

\* No raw mutex: the initial CondVarImpl::m_mutex, and no wait in progress.
NoRaw == <<>>

\* The raw mutex (pthread_mutex_t *) of instance i of mutex m.
Raw(m, i) == <<m, i>>

\* The MemoryMapped object a factory returns, and the object it is moved to.
MapObjects == {"mapped", "target"}

\* impl::MmapResultSuccess and impl::MmapResultFileTooLarge (E2BIG).
MmapResultSuccess == "Success"
MmapResultFileTooLarge == "E2BIG"

\* No call of an alignment function has been made.
NoCall == [fn |-> "none", value |-> 0, align |-> 1, result |-> 0]

\* No call of the Windows CondVarImpl::WaitUntil has been made.
NoSleep == [state |-> "none", time |-> 0, now |-> 0, timeout |-> 0]

\* No deadline: the thread is not in a timed wait.
NoDeadline == -1

Init ==
    /\ slot = [b \in Boxes |-> Null]
    /\ heap = [b \in Boxes |-> {}]
    /\ initialized = [b \in Boxes |-> {}]
    /\ owner = [m \in Mutexes |-> [i \in Threads |-> Null]]
    /\ guards = [t \in Threads |-> {}]
    /\ value = [m \in Mutexes |-> FALSE]
    /\ bound = [i \in Threads |-> NoRaw]
    /\ waiters = [i \in Threads |-> {}]
    /\ rwWriter = [i \in Threads |-> Null]
    /\ rwReaders = [i \in Threads |-> [t \in Threads |-> 0]]
    /\ rguards = [t \in Threads |-> 0]
    /\ wguards = [t \in Threads |-> 0]
    /\ pc = [t \in Threads |-> "idle"]
    /\ top = [t \in Threads |-> "none"]
    /\ tbox = [t \in Threads |-> "none"]
    /\ tinst = [t \in Threads |-> Null]
    /\ wraw = [t \in Threads |-> NoRaw]
    /\ ret = [t \in Threads |-> "none"]
    /\ dl = [t \in Threads |-> NoDeadline]
    /\ now = 0
    /\ counter = 0
    /\ reg = [t \in Threads |-> 0]
    /\ finalized = [b \in Boxes |-> "no"]
    /\ acall = NoCall
    /\ sleep = NoSleep
    /\ sg = <<>>
    /\ path = "in"
    /\ mobjs = {}
    /\ mptr = [o \in MapObjects |-> 0]
    /\ mlen = [o \in MapObjects |-> 0]
    /\ dirty = FALSE
    /\ mcall = [op |-> "none", sys |-> <<>>, res |-> MmapResultSuccess,
                thrown |-> FALSE]
    /\ step = [t \in Threads |-> 0]
    /\ aborted = FALSE

\* A call returns r to the thread's own code: its locals are gone.  r is
\* "guard" or "empty" for an optional guard, "true" or "false" for a bool
\* and "none" for a call that returns a guard or nothing.
ReturnLocalsWith(t, r) ==
    /\ top' = [top EXCEPT ![t] = "none"]
    /\ tbox' = [tbox EXCEPT ![t] = "none"]
    /\ tinst' = [tinst EXCEPT ![t] = Null]
    /\ wraw' = [wraw EXCEPT ![t] = NoRaw]
    /\ ret' = [ret EXCEPT ![t] = r]
    /\ dl' = [dl EXCEPT ![t] = NoDeadline]

ReturnLocals(t) == ReturnLocalsWith(t, "none")

ReturnWith(t, r) ==
    /\ pc' = [pc EXCEPT ![t] = "idle"]
    /\ ReturnLocalsWith(t, r)

Return(t) == ReturnWith(t, "none")

\* Thread t is in its own code and can make a call.
Callable(t) == ~aborted /\ pc[t] = "idle"

----------------------------------------------------------------------------
(* MutexImpl (pthread): the raw calls of thread t on instance i of mutex m *)

\* The outcomes of pthread_mutex_init() on instance i of mutex m.  On a
\* mutex nobody holds it leaves the mutex unlocked.  Initializing a mutex
\* that is in use is undefined: the build may reset it to unlocked, leave
\* it as it is, or report EBUSY (which fails the V_ASSERT around the call).
MutexInitOutcomes(m, i) ==
    IF owner[m][i] = Null
    THEN {[own |-> Null, abort |-> FALSE]}
    ELSE {[own |-> Null, abort |-> FALSE],
          [own |-> owner[m][i], abort |-> FALSE],
          [own |-> owner[m][i], abort |-> TRUE]}

\* MutexImpl::Lock(): pthread_mutex_lock blocks while the mutex is held (a
\* PTHREAD_MUTEX_NORMAL mutex relocked by its owner blocks forever), then
\* Mutex<T>::Lock() constructs the guard.
MutexImplLock(t, m, i) ==
    /\ owner[m][i] = Null
    /\ owner' = [owner EXCEPT ![m][i] = t]
    /\ guards' = [guards EXCEPT ![t] = @ \cup {m}]
    /\ Return(t)
    /\ UNCHANGED <<boxVars, value, condVars, rwVars, aborted>>

\* MutexImpl::TryLock(): pthread_mutex_trylock(...) == 0.
TryLockSucceeds(m, i) == owner[m][i] = Null

\* MutexImpl::TryLock(), then Mutex<T>::TryLock() returns a guard on success
\* and an empty optional otherwise.
MutexImplTryLock(t, m, i) ==
    /\ IF owner[m][i] = Null
       THEN owner' = [owner EXCEPT ![m][i] = t]
       ELSE UNCHANGED owner
    /\ IF TryLockSucceeds(m, i)
       THEN guards' = [guards EXCEPT ![t] = @ \cup {m}] /\ ReturnWith(t, "guard")
       ELSE UNCHANGED guards /\ ReturnWith(t, "empty")
    /\ UNCHANGED <<boxVars, value, condVars, rwVars, aborted>>

\* An unlock that leaves the mutex as it is.
UnlockKeeps(t, m, i) == {owner[m][i]}

\* The outcomes of pthread_mutex_unlock() by thread t on raw mutex (m, i).
\* Unlocking a NORMAL mutex the caller does not hold is undefined: the build
\* may release it anyway or leave it as it is.
MutexUnlockOutcomes(t, m, i) ==
    IF owner[m][i] = t THEN {Null} ELSE {Null, owner[m][i]}

\* MutexImpl::Unlock() called by ~MutexGuard(), which ends the guard.
MutexImplUnlock(t, m, i) ==
    /\ \E o \in MutexUnlockOutcomes(t, m, i) :
          owner' = [owner EXCEPT ![m][i] = o]
    /\ guards' = [guards EXCEPT ![t] = @ \ {m}]
    /\ Return(t)
    /\ UNCHANGED <<boxVars, value, condVars, rwVars, aborted>>

----------------------------------------------------------------------------
(* CondVarImpl (pthread): the raw calls of thread t on instance i          *)

\* The outcomes of pthread_cond_init() on condition variable instance i.
\* Initializing a condition variable threads are parked on is undefined:
\* the build may forget the parked threads, leave it as it is, or report
\* EBUSY (which fails the V_ASSERT around the call).
CondInitOutcomes(i) ==
    IF waiters[i] = {}
    THEN {[ws |-> {}, abort |-> FALSE]}
    ELSE {[ws |-> {}, abort |-> FALSE],
          [ws |-> waiters[i], abort |-> FALSE],
          [ws |-> waiters[i], abort |-> TRUE]}

\* CondVarImpl::Verify: m_mutex after compare_exchange_strong(tmp, mutex).
VerifyExchange(cur, raw) == IF cur = NoRaw THEN raw ELSE cur

\* A Verify whose assertion never fails.
VerifyAdmitsAll(cur, raw) == TRUE

\* CondVarImpl::Verify: the exchange succeeded, or V_ASSERT(tmp == mutex)
\* holds.
VerifyPasses(cur, raw) == cur = NoRaw \/ cur = raw

\* A wait that releases the mutex and has not parked the caller yet.
ParkLater(ws, t) == ws

\* pthread_cond_wait: the caller is parked in the step that releases the
\* mutex.
Park(ws, t) == ws \cup {t}

\* CondVarImpl::Wait(mutex), called for op (Wait or the loop of the
\* predicate wait) with r = mutex.Raw(): Verify(raw), then
\* pthread_cond_wait(m_cond, raw), which releases raw and parks the caller
\* atomically.  A failed V_ASSERT terminates the process.
CondVarImplWait(t, op, i, r) ==
    /\ bound' = [bound EXCEPT ![i] = VerifyExchange(@, r)]
    /\ IF VerifyPasses(bound[i], r)
       THEN /\ \E o \in MutexUnlockOutcomes(t, r[1], r[2]) :
                  owner' = [owner EXCEPT ![r[1]][r[2]] = o]
            /\ waiters' = [waiters EXCEPT ![i] = Park(@, t)]
            /\ pc' = [pc EXCEPT ![t] = "parked"]
            /\ top' = [top EXCEPT ![t] = op]
            /\ tbox' = [tbox EXCEPT ![t] = "cv"]
            /\ tinst' = [tinst EXCEPT ![t] = i]
            /\ wraw' = [wraw EXCEPT ![t] = r]
            /\ UNCHANGED <<ret, dl, aborted>>
       ELSE /\ aborted' = TRUE
            /\ UNCHANGED <<owner, waiters, pc, localVars>>
    /\ UNCHANGED <<boxVars, guards, value, rwVars>>

\* CondVarImpl::WaitUntil(mutex, time) up to the point where the caller is
\* parked: Verify(raw), then pthread_cond_timedwait(m_cond, raw, &timeout),
\* which releases raw and parks the caller atomically, as pthread_cond_wait
\* does.  The caller keeps the time point (end) while it is parked.
CondVarImplWaitUntil(t, op, i, r) == CondVarImplWait(t, op, i, r)

\* A notification that also forgets the mutex the variable is bound to.
NotifyOneUnbinds(t, i) ==
    /\ IF waiters[i] = {}
       THEN /\ pc' = [pc EXCEPT ![t] = "idle"]
            /\ UNCHANGED waiters
       ELSE \E w \in waiters[i] :
               /\ waiters' = [waiters EXCEPT ![i] = @ \ {w}]
               /\ pc' = [pc EXCEPT ![t] = "idle", ![w] = "reacquire"]
    /\ bound' = [bound EXCEPT ![i] = NoRaw]
    /\ ReturnLocals(t)
    /\ UNCHANGED <<boxVars, mutexVars, value, rwVars, aborted>>

\* CondVarImpl::NotifyOne(): pthread_cond_signal unparks one parked thread,
\* if there is one; an unparked thread goes on to relock its mutex.
CondVarImplNotifyOne(t, i) ==
    /\ IF waiters[i] = {}
       THEN /\ pc' = [pc EXCEPT ![t] = "idle"]
            /\ UNCHANGED waiters
       ELSE \E w \in waiters[i] :
               /\ waiters' = [waiters EXCEPT ![i] = @ \ {w}]
               /\ pc' = [pc EXCEPT ![t] = "idle", ![w] = "reacquire"]
    /\ ReturnLocals(t)
    /\ UNCHANGED <<boxVars, mutexVars, value, bound, rwVars, aborted>>

\* CondVarImpl::NotifyAll(): pthread_cond_broadcast unparks every parked
\* thread.
CondVarImplNotifyAll(t, i) ==
    /\ waiters' = [waiters EXCEPT ![i] = {}]
    /\ pc' = [u \in Threads |->
                 IF u = t THEN "idle"
                 ELSE IF u \in waiters[i] THEN "reacquire" ELSE pc[u]]
    /\ ReturnLocals(t)
    /\ UNCHANGED <<boxVars, mutexVars, value, bound, rwVars, aborted>>

----------------------------------------------------------------------------
(* ReadWriteLockImpl (pthread): the raw calls of thread t on instance i    *)

\* The number of read locks the pthread implementation can hold on one
\* rwlock: pthread_rwlock_rdlock reports EAGAIN beyond it.
MaxReaders == 2

RECURSIVE SumOver(_, _)
SumOver(f, S) ==
    IF S = {} THEN 0
    ELSE LET x == CHOOSE y \in S : TRUE IN f[x] + SumOver(f, S \ {x})

\* The read locks held on rwlock instance i.
ReadHolds(i) == SumOver(rwReaders[i], Threads)

\* A read lock that is refused while any lock is held: readers exclude each
\* other.
RdLockExclusive(t, i, try) ==
    IF rwWriter[i] # Null \/ ReadHolds(i) > 0
    THEN (IF try THEN {"EBUSY"} ELSE {"WAIT"})
    ELSE {"OK"}

\* What pthread_rwlock_rdlock / tryrdlock by t on instance i reports; "WAIT"
\* is the blocking call waiting.  A read lock requested by the thread that
\* holds the write lock either deadlocks or reports EDEADLK (POSIX).
RdLockResults(t, i, try) ==
    IF rwWriter[i] = t THEN (IF try THEN {"EBUSY"} ELSE {"EDEADLK", "WAIT"})
    ELSE IF rwWriter[i] # Null THEN (IF try THEN {"EBUSY"} ELSE {"WAIT"})
    ELSE IF ReadHolds(i) >= MaxReaders THEN {"EAGAIN"}
    ELSE {"OK"}

\* What pthread_rwlock_wrlock / trywrlock by t on instance i reports.  A
\* write lock requested by a thread that holds the lock either deadlocks or
\* reports EDEADLK (POSIX).
WrLockResults(t, i, try) ==
    IF rwWriter[i] = t \/ rwReaders[i][t] > 0
    THEN (IF try THEN {"EBUSY"} ELSE {"EDEADLK", "WAIT"})
    ELSE IF rwWriter[i] # Null \/ ReadHolds(i) > 0
    THEN (IF try THEN {"EBUSY"} ELSE {"WAIT"})
    ELSE {"OK"}

\* The rwlock after t's successful rdlock / wrlock.
RdLocked(t, i) == rwReaders' = [rwReaders EXCEPT ![i][t] = @ + 1]
WrLocked(t, i) == rwWriter' = [rwWriter EXCEPT ![i] = t]

\* ReadWriteLockImpl::Read(): EAGAIN and EDEADLK abort, anything else is
\* asserted to be 0; ReadWriteLock<T>::Read() then constructs the guard.
ReadWriteLockImplRead(t, i) ==
    /\ \E res \in RdLockResults(t, i, FALSE) :
          /\ res # "WAIT"
          /\ IF res \in {"EAGAIN", "EDEADLK"}
             THEN /\ aborted' = TRUE
                  /\ UNCHANGED <<rwVars, pc, localVars>>
             ELSE /\ RdLocked(t, i)
                  /\ rguards' = [rguards EXCEPT ![t] = @ + 1]
                  /\ Return(t)
                  /\ UNCHANGED <<rwWriter, wguards, aborted>>
    /\ UNCHANGED <<boxVars, mutexVars, value, condVars>>

\* A TryRead() that reports every outcome as success.
ImplTryReadAlways(res) == TRUE

\* ReadWriteLockImpl::TryRead(): false on EBUSY and EAGAIN, true otherwise.
ImplTryReadReturns(res) == res \notin {"EBUSY", "EAGAIN"}

\* ReadWriteLockImpl::TryRead() and ReadWriteLock<T>::TryRead(): a guard
\* when the raw call returned true, an empty optional otherwise.
ReadWriteLockImplTryRead(t, i) ==
    /\ \E res \in RdLockResults(t, i, TRUE) :
          /\ IF res = "OK" THEN RdLocked(t, i) ELSE UNCHANGED rwReaders
          /\ IF ImplTryReadReturns(res)
             THEN /\ rguards' = [rguards EXCEPT ![t] = @ + 1]
                  /\ ReturnWith(t, "guard")
             ELSE /\ UNCHANGED rguards
                  /\ ReturnWith(t, "empty")
    /\ UNCHANGED <<boxVars, mutexVars, value, condVars, rwWriter, wguards,
                   aborted>>

\* A Write() that returns to its caller when the lock reports EDEADLK.
WriteReturnsOnDeadlock(t, i) ==
    /\ \E res \in WrLockResults(t, i, FALSE) :
          /\ res # "WAIT"
          /\ IF res = "OK" THEN WrLocked(t, i) ELSE UNCHANGED rwWriter
          /\ wguards' = [wguards EXCEPT ![t] = @ + 1]
          /\ Return(t)
          /\ UNCHANGED <<rwReaders, rguards, aborted>>
    /\ UNCHANGED <<boxVars, mutexVars, value, condVars>>

\* ReadWriteLockImpl::Write(): EDEADLK aborts; ReadWriteLock<T>::Write()
\* then constructs the guard.
ReadWriteLockImplWrite(t, i) ==
    /\ \E res \in WrLockResults(t, i, FALSE) :
          /\ res # "WAIT"
          /\ IF res = "EDEADLK"
             THEN /\ aborted' = TRUE
                  /\ UNCHANGED <<rwVars, pc, localVars>>
             ELSE /\ WrLocked(t, i)
                  /\ wguards' = [wguards EXCEPT ![t] = @ + 1]
                  /\ Return(t)
                  /\ UNCHANGED <<rwReaders, rguards, aborted>>
    /\ UNCHANGED <<boxVars, mutexVars, value, condVars>>

\* A TryWrite() that reports every outcome as success.
ImplTryWriteAlways(res) == TRUE

\* ReadWriteLockImpl::TryWrite(): false on EBUSY, true otherwise.
ImplTryWriteReturns(res) == res # "EBUSY"

\* ReadWriteLockImpl::TryWrite() and ReadWriteLock<T>::TryWrite(): a guard
\* when the raw call returned true, an empty optional otherwise.
ReadWriteLockImplTryWrite(t, i) ==
    /\ \E res \in WrLockResults(t, i, TRUE) :
          /\ IF res = "OK" THEN WrLocked(t, i) ELSE UNCHANGED rwWriter
          /\ IF ImplTryWriteReturns(res)
             THEN /\ wguards' = [wguards EXCEPT ![t] = @ + 1]
                  /\ ReturnWith(t, "guard")
             ELSE /\ UNCHANGED wguards
                  /\ ReturnWith(t, "empty")
    /\ UNCHANGED <<boxVars, mutexVars, value, condVars, rwReaders, rguards,
                   aborted>>

\* ReadWriteLockImpl::RawUnlock(): pthread_rwlock_unlock by t releases the
\* write lock t holds, or else one read lock t holds.
RawUnlock(t, i) ==
    IF rwWriter[i] = t
    THEN rwWriter' = [rwWriter EXCEPT ![i] = Null] /\ UNCHANGED rwReaders
    ELSE /\ rwReaders' = [rwReaders EXCEPT ![i][t] = IF @ > 0 THEN @ - 1 ELSE 0]
         /\ UNCHANGED rwWriter

\* ReadWriteLockImpl::ReadUnlock() called by ~ReaderGuard().
ReadWriteLockImplReadUnlock(t, i) ==
    /\ RawUnlock(t, i)
    /\ rguards' = [rguards EXCEPT ![t] = @ - 1]
    /\ Return(t)
    /\ UNCHANGED <<boxVars, mutexVars, value, condVars, wguards, aborted>>

\* ReadWriteLockImpl::WriteUnlock() called by ~WriterGuard().
ReadWriteLockImplWriteUnlock(t, i) ==
    /\ RawUnlock(t, i)
    /\ wguards' = [wguards EXCEPT ![t] = @ - 1]
    /\ Return(t)
    /\ UNCHANGED <<boxVars, mutexVars, value, condVars, rguards, aborted>>

----------------------------------------------------------------------------
(* PointerValueStorage (heap variant) and PointerValue::Get()              *)

\* The raw call op of thread t on instance i of box b, which Get() returned;
\* r is the raw mutex handed to a wait.
RawCall(t, op, b, i, r) ==
    CASE op = "Lock" -> MutexImplLock(t, b, i)
      [] op = "TryLock" -> MutexImplTryLock(t, b, i)
      [] op = "Unlock" -> MutexImplUnlock(t, b, i)
      [] op \in {"Wait", "WaitPred"} -> CondVarImplWait(t, op, i, r)
      [] op \in {"WaitFor", "WaitForPred"} ->
            CondVarImplWaitUntil(t, op, i, r)
      [] op = "NotifyOne" -> CondVarImplNotifyOne(t, i)
      [] op = "NotifyAll" -> CondVarImplNotifyAll(t, i)
      [] op = "Read" -> ReadWriteLockImplRead(t, i)
      [] op = "TryRead" -> ReadWriteLockImplTryRead(t, i)
      [] op = "Write" -> ReadWriteLockImplWrite(t, i)
      [] op = "TryWrite" -> ReadWriteLockImplTryWrite(t, i)
      [] op = "ReadUnlock" -> ReadWriteLockImplReadUnlock(t, i)
      [] op = "WriteUnlock" -> ReadWriteLockImplWriteUnlock(t, i)

\* m_impl.Get().op(): PointerValue::Get() -> GetPointer() loads m_inner.  A
\* non-null pointer is returned and op is called on it; a null load enters
\* Initialize(), whose first statement allocates a fresh T.
GetPointer(t, b, op, r) ==
    IF slot[b] = Null
    THEN /\ heap' = [heap EXCEPT ![b] = @ \cup {t}]
         /\ pc' = [pc EXCEPT ![t] = "cas"]
         /\ top' = [top EXCEPT ![t] = op]
         /\ tbox' = [tbox EXCEPT ![t] = b]
         /\ tinst' = [tinst EXCEPT ![t] = t]
         /\ wraw' = [wraw EXCEPT ![t] = r]
         /\ UNCHANGED <<ret, dl, slot, initialized, mutexVars, value, condVars, rwVars,
                        aborted>>
    ELSE RawCall(t, op, b, slot[b], r)

\* A plain store in place of the compare-exchange.
CompareExchangeStore(cur, ptr) == ptr

\* m_inner.compare_exchange_strong(res, ptr): the slot after the exchange.
CompareExchange(cur, ptr) == IF cur = Null THEN ptr ELSE cur

\* PointerValueStorage::Initialize() from the compare-exchange on: the winner
\* goes on to ptr->Initialize(), a loser deletes its allocation and returns
\* the pointer the exchange loaded.
InitializeCas(t) ==
    /\ ~aborted
    /\ UNCHANGED <<step, now, otherVars>>
    /\ pc[t] = "cas"
    /\ LET b == tbox[t] IN
       /\ slot' = [slot EXCEPT ![b] = CompareExchange(slot[b], tinst[t])]
       /\ IF slot[b] = Null
          THEN /\ pc' = [pc EXCEPT ![t] = "init"]
               /\ UNCHANGED <<heap, tinst>>
          ELSE /\ heap' = [heap EXCEPT ![b] = @ \ {tinst[t]}]
               /\ tinst' = [tinst EXCEPT ![t] = slot[b]]
               /\ pc' = [pc EXCEPT ![t] = "raw"]
    /\ UNCHANGED <<initialized, mutexVars, value, condVars, rwVars, top, tbox,
                   wraw, ret, dl, aborted>>

\* ptr->Initialize() of the winner, for a MutexImpl: pthread_mutex_init.
InitializeMutex(t) ==
    /\ ~aborted
    /\ UNCHANGED <<step, now, otherVars>>
    /\ pc[t] = "init"
    /\ tbox[t] \in Mutexes
    /\ LET m == tbox[t]
           i == tinst[t] IN
       \E o \in MutexInitOutcomes(m, i) :
          /\ owner' = [owner EXCEPT ![m][i] = o.own]
          /\ aborted' = o.abort
          /\ initialized' = [initialized EXCEPT ![m] = @ \cup {i}]
    /\ pc' = [pc EXCEPT ![t] = "raw"]
    /\ UNCHANGED <<slot, heap, guards, value, condVars, rwVars, localVars>>

\* ptr->Initialize() of the winner, for a CondVarImpl: pthread_cond_init.
\* It leaves m_mutex alone.
InitializeCondVar(t) ==
    /\ ~aborted
    /\ UNCHANGED <<step, now, otherVars>>
    /\ pc[t] = "init"
    /\ tbox[t] = "cv"
    /\ LET i == tinst[t] IN
       \E o \in CondInitOutcomes(i) :
          /\ waiters' = [waiters EXCEPT ![i] = o.ws]
          /\ aborted' = o.abort
          /\ initialized' = [initialized EXCEPT !["cv"] = @ \cup {i}]
    /\ pc' = [pc EXCEPT ![t] = "raw"]
    /\ UNCHANGED <<slot, heap, mutexVars, value, bound, rwVars, localVars>>

\* ptr->Initialize() of the winner, for a ReadWriteLockImpl: an empty body
\* (the instance is a PTHREAD_RWLOCK_INITIALIZER lock).
InitializeRW(t) ==
    /\ ~aborted
    /\ UNCHANGED <<step, now, otherVars>>
    /\ pc[t] = "init"
    /\ tbox[t] = "rw"
    /\ initialized' = [initialized EXCEPT !["rw"] = @ \cup {tinst[t]}]
    /\ pc' = [pc EXCEPT ![t] = "raw"]
    /\ UNCHANGED <<slot, heap, mutexVars, value, condVars, rwVars, localVars,
                   aborted>>

\* Initialize() has returned the instance to GetPointer() and Get(): the
\* thread calls its operation on it.
AfterInitialize(t) ==
    /\ ~aborted
    /\ UNCHANGED <<step, now, otherVars>>
    /\ pc[t] = "raw"
    /\ RawCall(t, top[t], tbox[t], tinst[t], wraw[t])

----------------------------------------------------------------------------
(* Mutex<T> and MutexGuard<T>                                              *)

\* Mutex<T>::Lock(): m_raw.Lock() is m_impl.Get().Lock().
Lock(t, m) ==
    /\ Callable(t)
    /\ UNCHANGED <<step, now, otherVars>>
    /\ GetPointer(t, m, "Lock", NoRaw)

\* Mutex<T>::TryLock(): m_raw.TryLock() is m_impl.Get().TryLock().
TryLock(t, m) ==
    /\ Callable(t)
    /\ UNCHANGED <<step, now, otherVars>>
    /\ GetPointer(t, m, "TryLock", NoRaw)

\* ~MutexGuard(): m_raw.Unlock() is m_impl.Get().Unlock().
DestroyGuard(t, m) ==
    /\ Callable(t)
    /\ UNCHANGED <<step, now, otherVars>>
    /\ m \in guards[t]
    /\ GetPointer(t, m, "Unlock", NoRaw)

\* MutexGuard::operator*(): the holder of a guard writes the protected value.
SetValue(t, m) ==
    /\ Callable(t)
    /\ UNCHANGED <<step, now, otherVars>>
    /\ m \in guards[t]
    /\ value' = [value EXCEPT ![m] = ~@]
    /\ UNCHANGED <<boxVars, mutexVars, condVars, rwVars, pc, localVars,
                   aborted>>

\* The mutex the threads of Spec use.
TheMutex == "m1"

\* Threads using one Mutex<T> from its construction on.
Next ==
    \E t \in Threads :
        \/ Lock(t, TheMutex)
        \/ TryLock(t, TheMutex)
        \/ DestroyGuard(t, TheMutex)
        \/ InitializeCas(t)
        \/ InitializeMutex(t)
        \/ AfterInitialize(t)

Spec == Init /\ [][Next]_vars

----------------------------------------------------------------------------
(* ReadWriteLock<T>, ReaderGuard<T> and WriterGuard<T>                     *)

\* ReadWriteLock<T>::Read / TryRead / Write / TryWrite: m_raw.Op() is
\* m_impl.Get().Op().
RWCall(t, op) ==
    /\ Callable(t)
    /\ UNCHANGED <<step, now, otherVars>>
    /\ GetPointer(t, "rw", op, NoRaw)

Read(t) == RWCall(t, "Read")
TryRead(t) == RWCall(t, "TryRead")
Write(t) == RWCall(t, "Write")
TryWrite(t) == RWCall(t, "TryWrite")

\* ~ReaderGuard(): m_raw.ReadUnlock().
DestroyReaderGuard(t) == rguards[t] > 0 /\ RWCall(t, "ReadUnlock")

\* ~WriterGuard(): m_raw.WriteUnlock().
DestroyWriterGuard(t) == wguards[t] > 0 /\ RWCall(t, "WriteUnlock")

\* Threads using one ReadWriteLock<T> from its construction on.
NextRW ==
    \E t \in Threads :
        \/ Read(t)
        \/ TryRead(t)
        \/ Write(t)
        \/ TryWrite(t)
        \/ DestroyReaderGuard(t)
        \/ DestroyWriterGuard(t)
        \/ InitializeCas(t)
        \/ InitializeRW(t)
        \/ AfterInitialize(t)

SpecRW == Init /\ [][NextRW]_vars

----------------------------------------------------------------------------
(* ConditionVariable                                                       *)

\* Number of threads using the condition variable.
NumCondThreads == 2

CondThreads == 1..NumCondThreads

\* The predicate passed to the predicate waits: the protected bool is set.
Pred(m) == value[m]

\* ConditionVariable::NotifyOne(): m_raw.NotifyOne() is
\* m_impl.Get().NotifyOne().
NotifyOne(t) ==
    /\ Callable(t)
    /\ UNCHANGED <<step, now, otherVars>>
    /\ GetPointer(t, "cv", "NotifyOne", NoRaw)

\* ConditionVariable::NotifyAll(): m_raw.NotifyAll() is
\* m_impl.Get().NotifyAll().
NotifyAll(t) ==
    /\ Callable(t)
    /\ UNCHANGED <<step, now, otherVars>>
    /\ GetPointer(t, "cv", "NotifyAll", NoRaw)

\* ConditionVariable::Wait(guard): m_raw.Wait(guard.m_raw) is
\* m_impl.Get().Wait(mutex.GetImpl()); the guard's mutex is installed, so
\* its GetImpl() is a load of the installed pointer.
Wait(t, m) ==
    /\ Callable(t)
    /\ UNCHANGED <<step, now, otherVars>>
    /\ m \in guards[t]
    /\ GetPointer(t, "cv", "Wait", Raw(m, slot[m]))

\* ConditionVariable::Wait(guard, pred): entry of the while loop.
WaitPred(t, m) ==
    /\ Callable(t)
    /\ UNCHANGED <<step, now, otherVars>>
    /\ m \in guards[t]
    /\ wraw' = [wraw EXCEPT ![t] = Raw(m, slot[m])]
    /\ pc' = [pc EXCEPT ![t] = "check"]
    /\ top' = [top EXCEPT ![t] = "WaitPred"]
    /\ UNCHANGED <<boxVars, mutexVars, value, condVars, rwVars, tbox, tinst,
                   ret, dl, aborted>>

\* A loop that never tests its predicate before waiting.
LoopWaitsFirst(t) == FALSE

\* while (!pred(*guard)): the loop of Wait(guard, pred) is left when the
\* predicate holds of the protected value.
LoopExits(t) == Pred(wraw[t][1])

\* Wait(guard, pred) and WaitFor(guard, time, pred): one evaluation of the
\* loop condition.  The call either returns (WaitFor returns true) or calls
\* Wait(guard), respectively m_raw.WaitUntil(guard.m_raw, end).
CheckPred(t) ==
    /\ ~aborted
    /\ UNCHANGED <<step, now, otherVars>>
    /\ pc[t] = "check"
    /\ IF LoopExits(t)
       THEN /\ IF top[t] = "WaitForPred"
               THEN ReturnWith(t, "true")
               ELSE Return(t)
            /\ UNCHANGED <<boxVars, mutexVars, value, condVars, rwVars,
                           aborted>>
       ELSE GetPointer(t, "cv", top[t], wraw[t])

\* pthread_cond_wait may return without a notification.
SpuriousWakeup(t) ==
    /\ ~aborted
    /\ UNCHANGED <<step, now, otherVars>>
    /\ pc[t] = "parked"
    /\ waiters' = [waiters EXCEPT ![tinst[t]] = @ \ {t}]
    /\ pc' = [pc EXCEPT ![t] = "reacquire"]
    /\ UNCHANGED <<boxVars, mutexVars, value, bound, rwVars, localVars,
                   aborted>>

\* A wait that returns without relocking the mutex.
RelockSkipped(t, r) == owner[r[1]][r[2]]

\* pthread_cond_wait relocks the mutex before it returns.
Relock(t, r) == t

\* A timed wait that still reports success when the clock is exactly at the
\* deadline.
BeforeOrAtDeadline(t) == now <= dl[t]

\* A timed wait that reports success whatever the clock shows.
BeforeDeadlineAlways(t) == TRUE

\* CondVarImpl::WaitUntil: return Clock::now() < time.
BeforeDeadline(t) == now < dl[t]

\* The end of pthread_cond_wait / pthread_cond_timedwait: the unparked thread
\* relocks the mutex (it blocks while the mutex is held) and CondVarImpl::Wait
\* returns, to the caller of Wait(guard) or into the loop of Wait(guard,
\* pred); CondVarImpl::WaitUntil returns Clock::now() < time, to the caller
\* of WaitFor(guard, time) or into the loop of WaitFor(guard, time, pred),
\* which goes on to its last evaluation of the predicate when that is false.
Reacquire(t) ==
    /\ ~aborted
    /\ UNCHANGED <<step, now, otherVars>>
    /\ pc[t] = "reacquire"
    /\ LET r == wraw[t] IN
       /\ owner[r[1]][r[2]] = Null
       /\ owner' = [owner EXCEPT ![r[1]][r[2]] = Relock(t, r)]
    /\ CASE top[t] = "Wait" -> Return(t)
         [] top[t] = "WaitFor" ->
               ReturnWith(t, IF BeforeDeadline(t) THEN "true" ELSE "false")
         [] OTHER ->
               /\ pc' = [pc EXCEPT ![t] =
                            IF top[t] = "WaitForPred" /\ ~BeforeDeadline(t)
                            THEN "last" ELSE "check"]
               /\ tbox' = [tbox EXCEPT ![t] = "none"]
               /\ tinst' = [tinst EXCEPT ![t] = Null]
               /\ UNCHANGED <<top, wraw, ret, dl>>
    /\ UNCHANGED <<boxVars, guards, value, condVars, rwVars, aborted>>

\* Threads using two Mutex<bool> and one ConditionVariable from their
\* construction on.
NextCond ==
    \E t \in CondThreads :
        \/ \E m \in Mutexes :
              \/ Lock(t, m)
              \/ DestroyGuard(t, m)
              \/ SetValue(t, m)
              \/ Wait(t, m)
              \/ WaitPred(t, m)
        \/ NotifyOne(t)
        \/ NotifyAll(t)
        \/ InitializeCas(t)
        \/ InitializeMutex(t)
        \/ InitializeCondVar(t)
        \/ AfterInitialize(t)
        \/ CheckPred(t)
        \/ SpuriousWakeup(t)
        \/ Reacquire(t)

SpecCond == Init /\ [][NextCond]_vars

----------------------------------------------------------------------------
(* The timed waits of ConditionVariable                                    *)

\* The steady clock is followed for this many ticks.
MaxTime == 2

\* The durations passed to the timed waits, in ticks.
MaxDuration == 1
Durations == 1..MaxDuration

\* Notifications issued by each thread of the timed program.
MaxNotify == 1

\* ConditionVariable::WaitFor(guard, time): auto end = steady_clock::now() +
\* time; the call of m_raw.WaitUntil(guard.m_raw, end) is the next step.
WaitFor(t, m, d) ==
    /\ Callable(t)
    /\ UNCHANGED <<step, now, otherVars>>
    /\ m \in guards[t]
    /\ now + d <= MaxTime
    /\ dl' = [dl EXCEPT ![t] = now + d]
    /\ wraw' = [wraw EXCEPT ![t] = Raw(m, slot[m])]
    /\ pc' = [pc EXCEPT ![t] = "timed"]
    /\ top' = [top EXCEPT ![t] = "WaitFor"]
    /\ UNCHANGED <<boxVars, mutexVars, value, condVars, rwVars, tbox, tinst,
                   ret, aborted>>

\* WaitFor(guard, time): return m_raw.WaitUntil(guard.m_raw, end), which is
\* m_impl.Get().WaitUntil(mutex.GetImpl(), time).
CallWaitUntil(t) ==
    /\ ~aborted
    /\ UNCHANGED <<step, now, otherVars>>
    /\ pc[t] = "timed"
    /\ GetPointer(t, "cv", "WaitFor", wraw[t])

\* ConditionVariable::WaitFor(guard, time, pred): auto end =
\* steady_clock::now() + time, and entry of the while loop.
WaitForPred(t, m, d) ==
    /\ Callable(t)
    /\ UNCHANGED <<step, now, otherVars>>
    /\ m \in guards[t]
    /\ now + d <= MaxTime
    /\ dl' = [dl EXCEPT ![t] = now + d]
    /\ wraw' = [wraw EXCEPT ![t] = Raw(m, slot[m])]
    /\ pc' = [pc EXCEPT ![t] = "check"]
    /\ top' = [top EXCEPT ![t] = "WaitForPred"]
    /\ UNCHANGED <<boxVars, mutexVars, value, condVars, rwVars, tbox, tinst,
                   ret, aborted>>

\* WaitFor(guard, time, pred) after a WaitUntil that returned false:
\* return pred(*guard).
LastPred(t) ==
    /\ ~aborted
    /\ UNCHANGED <<step, now, otherVars>>
    /\ pc[t] = "last"
    /\ ReturnWith(t, IF Pred(wraw[t][1]) THEN "true" ELSE "false")
    /\ UNCHANGED <<boxVars, mutexVars, value, condVars, rwVars, aborted>>

\* pthread_cond_timedwait reports ETIMEDOUT: a thread parked in a timed wait
\* is unparked when the clock has reached its time point, and goes on to
\* relock its mutex.
Timeout(t) ==
    /\ ~aborted
    /\ UNCHANGED step
    /\ pc[t] = "parked"
    /\ dl[t] # NoDeadline
    /\ now >= dl[t]
    /\ waiters' = [waiters EXCEPT ![tinst[t]] = @ \ {t}]
    /\ pc' = [pc EXCEPT ![t] = "reacquire"]
    /\ UNCHANGED <<boxVars, mutexVars, value, bound, rwVars, localVars,
                   now, otherVars, aborted>>

\* The steady clock advances.
Tick ==
    /\ ~aborted
    /\ now < MaxTime
    /\ now' = now + 1
    /\ UNCHANGED <<boxVars, mutexVars, value, condVars, rwVars, pc,
                   localVars, step, otherVars, aborted>>

\* cv.NotifyOne() of the timed program, which counts its notifications.
TimedNotifyOne(t) ==
    /\ Callable(t)
    /\ step[t] < MaxNotify
    /\ step' = [step EXCEPT ![t] = @ + 1]
    /\ UNCHANGED <<now, otherVars>>
    /\ GetPointer(t, "cv", "NotifyOne", NoRaw)

\* Threads using one Mutex<bool> and one ConditionVariable with timed waits
\* from their construction on.
NextTimed ==
    \/ Tick
    \/ \E t \in CondThreads :
          \/ Lock(t, TheMutex)
          \/ DestroyGuard(t, TheMutex)
          \/ SetValue(t, TheMutex)
          \/ \E d \in Durations :
                \/ WaitFor(t, TheMutex, d)
                \/ WaitForPred(t, TheMutex, d)
          \/ CallWaitUntil(t)
          \/ TimedNotifyOne(t)
          \/ InitializeCas(t)
          \/ InitializeMutex(t)
          \/ InitializeCondVar(t)
          \/ AfterInitialize(t)
          \/ CheckPred(t)
          \/ LastPred(t)
          \/ Timeout(t)
          \/ SpuriousWakeup(t)
          \/ Reacquire(t)

\* Fair scheduling: the clock advances, a thread inside a call that can take
\* its next step eventually takes it, a thread whose relock is possible
\* again and again eventually relocks, and a guard goes out of scope.  A
\* spurious wakeup and a call from the thread's own code are never owed.
FairTimed ==
    /\ WF_vars(Tick)
    /\ \A t \in CondThreads :
          /\ WF_vars(DestroyGuard(t, TheMutex))
          /\ WF_vars(CallWaitUntil(t))
          /\ WF_vars(InitializeCas(t))
          /\ WF_vars(InitializeMutex(t))
          /\ WF_vars(InitializeCondVar(t))
          /\ WF_vars(AfterInitialize(t))
          /\ WF_vars(CheckPred(t))
          /\ WF_vars(LastPred(t))
          /\ WF_vars(Timeout(t))
          /\ SF_vars(Reacquire(t))

SpecTimed == Init /\ [][NextTimed]_vars /\ FairTimed

----------------------------------------------------------------------------
(* Scenario: a waiter, a waker and a bystander on one mutex and one        *)
(* condition variable                                                      *)

\* The waiter runs  guard = m.Lock(); cv.Wait(guard, pred);
\* the waker, once the waiter is blocked, runs
\*     { guard = m.Lock(); *guard = true; }  cv.NotifyOne();
\* the bystander locks and unlocks the mutex a few times meanwhile.
Waiter == 1
Waker == 2
Bystander == 3

\* The lock/unlock rounds of the bystander.
MaxRounds == 5

\* Waiter: guard = m.Lock().
WaiterLock ==
    /\ step[Waiter] = 0
    /\ Callable(Waiter)
    /\ GetPointer(Waiter, TheMutex, "Lock", NoRaw)
    /\ step' = [step EXCEPT ![Waiter] = 1]
    /\ UNCHANGED <<now, otherVars>>

\* Waiter: cv.Wait(guard, pred), with the predicate false at the call.
WaiterWait ==
    /\ step[Waiter] = 1
    /\ Callable(Waiter)
    /\ TheMutex \in guards[Waiter]
    /\ ~Pred(TheMutex)
    /\ wraw' = [wraw EXCEPT ![Waiter] = Raw(TheMutex, slot[TheMutex])]
    /\ pc' = [pc EXCEPT ![Waiter] = "check"]
    /\ top' = [top EXCEPT ![Waiter] = "WaitPred"]
    /\ step' = [step EXCEPT ![Waiter] = 2]
    /\ UNCHANGED <<now, otherVars>>
    /\ UNCHANGED <<boxVars, mutexVars, value, condVars, rwVars, tbox, tinst,
                   ret, dl, aborted>>

\* The waiter is blocked in its wait.
WaiterBlocked == step[Waiter] = 2 /\ pc[Waiter] = "parked"

\* Waker: guard = m.Lock(), called once the waiter is blocked.
WakerLock ==
    /\ step[Waker] = 0
    /\ WaiterBlocked
    /\ Callable(Waker)
    /\ GetPointer(Waker, TheMutex, "Lock", NoRaw)
    /\ step' = [step EXCEPT ![Waker] = 1]
    /\ UNCHANGED <<now, otherVars>>

\* Waker: *guard = true.
WakerSet ==
    /\ step[Waker] = 1
    /\ Callable(Waker)
    /\ TheMutex \in guards[Waker]
    /\ value' = [value EXCEPT ![TheMutex] = TRUE]
    /\ step' = [step EXCEPT ![Waker] = 2]
    /\ UNCHANGED <<now, otherVars>>
    /\ UNCHANGED <<boxVars, mutexVars, condVars, rwVars, pc, localVars,
                   aborted>>

\* Waker: the guard goes out of scope.
WakerUnlock ==
    /\ step[Waker] = 2
    /\ Callable(Waker)
    /\ GetPointer(Waker, TheMutex, "Unlock", NoRaw)
    /\ step' = [step EXCEPT ![Waker] = 3]
    /\ UNCHANGED <<now, otherVars>>

\* Waker: cv.NotifyOne().
WakerNotify ==
    /\ step[Waker] = 3
    /\ Callable(Waker)
    /\ GetPointer(Waker, "cv", "NotifyOne", NoRaw)
    /\ step' = [step EXCEPT ![Waker] = 4]
    /\ UNCHANGED <<now, otherVars>>

\* Bystander: guard = m.Lock(), called after the waiter's Lock() returned.
BystanderLock ==
    /\ step[Bystander] < MaxRounds
    /\ step[Waiter] = 2
    /\ Callable(Bystander)
    /\ TheMutex \notin guards[Bystander]
    /\ GetPointer(Bystander, TheMutex, "Lock", NoRaw)
    /\ step' = [step EXCEPT ![Bystander] = @ + 1]
    /\ UNCHANGED <<now, otherVars>>

\* Bystander: the guard goes out of scope.
BystanderUnlock == DestroyGuard(Bystander, TheMutex)

NextWake ==
    \/ WaiterLock
    \/ WaiterWait
    \/ WakerLock
    \/ WakerSet
    \/ WakerUnlock
    \/ WakerNotify
    \/ BystanderLock
    \/ BystanderUnlock
    \/ \E t \in Threads :
          \/ InitializeCas(t)
          \/ InitializeMutex(t)
          \/ InitializeCondVar(t)
          \/ AfterInitialize(t)
          \/ CheckPred(t)
          \/ SpuriousWakeup(t)
          \/ Reacquire(t)

\* Fair scheduling: a thread that can take its next step eventually takes
\* it.  A spurious wakeup is never owed.
FairWake ==
    /\ WF_vars(WaiterLock) /\ WF_vars(WaiterWait)
    /\ WF_vars(WakerLock) /\ WF_vars(WakerSet)
    /\ WF_vars(WakerUnlock) /\ WF_vars(WakerNotify)
    /\ WF_vars(BystanderUnlock)
    /\ \A t \in Threads :
          /\ WF_vars(InitializeCas(t))
          /\ WF_vars(InitializeMutex(t))
          /\ WF_vars(InitializeCondVar(t))
          /\ WF_vars(AfterInitialize(t))
          /\ WF_vars(CheckPred(t))
          /\ WF_vars(Reacquire(t))

SpecWake == Init /\ [][NextWake]_vars /\ FairWake

----------------------------------------------------------------------------
(* Scenario: guards taken and destroyed, then a Lock() and a Write() by    *)
(* another thread                                                          *)

\* The holders take guards of one Mutex<T> and one ReadWriteLock<T> and let
\* them go out of scope; the later thread then runs
\*     g = m.Lock(); w = rw.Write();
Holders == {1, 2}
Later == 3

\* The calls each holder makes that ask for a guard.
MaxAcquire == 2

\* Holder: m.Lock() or m.TryLock().
HolderLock(t) ==
    /\ step[t] < MaxAcquire
    /\ Callable(t)
    /\ \E op \in {"Lock", "TryLock"} : GetPointer(t, TheMutex, op, NoRaw)
    /\ step' = [step EXCEPT ![t] = @ + 1]
    /\ UNCHANGED <<now, otherVars>>

\* Holder: rw.Read(), rw.TryRead(), rw.Write() or rw.TryWrite().
HolderRW(t) ==
    /\ step[t] < MaxAcquire
    /\ Callable(t)
    /\ \E op \in {"Read", "TryRead", "Write", "TryWrite"} :
          GetPointer(t, "rw", op, NoRaw)
    /\ step' = [step EXCEPT ![t] = @ + 1]
    /\ UNCHANGED <<now, otherVars>>

\* Every guard the holders obtained has been destroyed and the holders have
\* made all their calls.
AllReleased ==
    \A t \in Holders :
        /\ step[t] = MaxAcquire
        /\ pc[t] = "idle"
        /\ guards[t] = {}
        /\ rguards[t] = 0
        /\ wguards[t] = 0

\* Later thread: g = m.Lock(), after the holders' guards are gone.
LaterLock ==
    /\ step[Later] = 0
    /\ AllReleased
    /\ Callable(Later)
    /\ GetPointer(Later, TheMutex, "Lock", NoRaw)
    /\ step' = [step EXCEPT ![Later] = 1]
    /\ UNCHANGED <<now, otherVars>>

\* Later thread: w = rw.Write().
LaterWrite ==
    /\ step[Later] = 1
    /\ Callable(Later)
    /\ GetPointer(Later, "rw", "Write", NoRaw)
    /\ step' = [step EXCEPT ![Later] = 2]
    /\ UNCHANGED <<now, otherVars>>

NextRelease ==
    \/ \E t \in Holders :
          \/ HolderLock(t)
          \/ HolderRW(t)
          \/ DestroyGuard(t, TheMutex)
          \/ DestroyReaderGuard(t)
          \/ DestroyWriterGuard(t)
    \/ LaterLock
    \/ LaterWrite
    \/ \E t \in Threads :
          \/ InitializeCas(t)
          \/ InitializeMutex(t)
          \/ InitializeRW(t)
          \/ AfterInitialize(t)

\* Fair scheduling of the later thread: when it can take its next step it
\* eventually takes it.
FairRelease ==
    /\ WF_vars(LaterLock)
    /\ WF_vars(LaterWrite)
    /\ WF_vars(InitializeCas(Later))
    /\ WF_vars(InitializeMutex(Later))
    /\ WF_vars(InitializeRW(Later))
    /\ WF_vars(AfterInitialize(Later))

SpecRelease == Init /\ [][NextRelease]_vars /\ FairRelease

----------------------------------------------------------------------------
(* Scenario: two waiters and a notifier on one mutex and one condition     *)
(* variable                                                                *)

\* The threads of the scenario: each waiter runs guard = m.Lock();
\* cv.Wait(guard); and lets the guard go out of scope.  The notifier calls
\* NotifyOne() and NotifyAll(), some of them before any waiter calls Wait.
Sleepers == {1, 2}
Notifier == 3

\* Notifications the notifier issues before the first Wait.
MaxEarly == 2

\* Sleeper w: guard = m.Lock().
SleeperLock(w) ==
    /\ step[w] = 0
    /\ Callable(w)
    /\ GetPointer(w, TheMutex, "Lock", NoRaw)
    /\ step' = [step EXCEPT ![w] = 1]
    /\ UNCHANGED <<now, otherVars>>

\* Sleeper w: cv.Wait(guard).
SleeperWait(w) ==
    /\ step[w] = 1
    /\ Callable(w)
    /\ TheMutex \in guards[w]
    /\ GetPointer(w, "cv", "Wait", Raw(TheMutex, slot[TheMutex]))
    /\ step' = [step EXCEPT ![w] = 2]
    /\ UNCHANGED <<now, otherVars>>

\* Sleeper w: the guard goes out of scope after the wait returned.
SleeperUnlock(w) ==
    /\ step[w] = 2
    /\ Callable(w)
    /\ TheMutex \in guards[w]
    /\ GetPointer(w, TheMutex, "Unlock", NoRaw)
    /\ step' = [step EXCEPT ![w] = 3]
    /\ UNCHANGED <<now, otherVars>>

\* No sleeper has called Wait.
NoWaitYet == \A w \in Sleepers : step[w] <= 1

\* Notifier: cv.NotifyOne() or cv.NotifyAll() (op) before any Wait.
EarlyNotify(op) ==
    /\ step[Notifier] < MaxEarly
    /\ NoWaitYet
    /\ Callable(Notifier)
    /\ GetPointer(Notifier, "cv", op, NoRaw)
    /\ step' = [step EXCEPT ![Notifier] = @ + 1]
    /\ UNCHANGED <<now, otherVars>>

\* Notifier: cv.NotifyOne() or cv.NotifyAll() (op) once a sleeper has called
\* Wait; the early notifications are over.
LateNotify(op) ==
    /\ ~NoWaitYet
    /\ Callable(Notifier)
    /\ GetPointer(Notifier, "cv", op, NoRaw)
    /\ step' = [step EXCEPT ![Notifier] = MaxEarly + 1]
    /\ UNCHANGED <<now, otherVars>>

NextNotify ==
    \/ \E w \in Sleepers :
          \/ SleeperLock(w)
          \/ SleeperWait(w)
          \/ SleeperUnlock(w)
    \/ \E op \in {"NotifyOne", "NotifyAll"} :
          \/ EarlyNotify(op)
          \/ LateNotify(op)
    \/ \E t \in Threads :
          \/ InitializeCas(t)
          \/ InitializeMutex(t)
          \/ InitializeCondVar(t)
          \/ AfterInitialize(t)
          \/ SpuriousWakeup(t)
          \/ Reacquire(t)

\* Fair scheduling: a sleeper goes on with its program, a thread inside a
\* call that can take its next step eventually takes it, and a thread whose
\* relock is possible again and again eventually relocks.  A notification
\* and a spurious wakeup are never owed.
FairNotify ==
    /\ \A w \in Sleepers :
          /\ WF_vars(SleeperLock(w))
          /\ WF_vars(SleeperWait(w))
          /\ WF_vars(SleeperUnlock(w))
    /\ \A t \in Threads :
          /\ WF_vars(InitializeCas(t))
          /\ WF_vars(InitializeMutex(t))
          /\ WF_vars(InitializeCondVar(t))
          /\ WF_vars(AfterInitialize(t))
          /\ SF_vars(Reacquire(t))

SpecNotify == Init /\ [][NextNotify]_vars /\ FairNotify

----------------------------------------------------------------------------
(* Scenario: threads incrementing a counter under one Mutex<int>           *)

\* K threads, each doing N/K iterations of { guard = m.Lock(); ++*guard; }
\* on the Mutex<int> TheMutex, whose value is counter.
NumCounters == 2
Counters == 1..NumCounters
PerThread == 2

\* The calls of one iteration: Lock, read, write, ~MutexGuard.
IterationCalls == 4

\* Counting thread t has finished its iterations.
Finished(t) == step[t] = IterationCalls * PerThread

\* guard = m.Lock().
CounterLock(t) ==
    /\ ~Finished(t)
    /\ step[t] % IterationCalls = 0
    /\ Callable(t)
    /\ GetPointer(t, TheMutex, "Lock", NoRaw)
    /\ step' = [step EXCEPT ![t] = @ + 1]
    /\ UNCHANGED <<now, otherVars>>

\* ++*guard, first half: MutexGuard::operator*() yields m_value, which is
\* read.
CounterRead(t) ==
    /\ step[t] % IterationCalls = 1
    /\ Callable(t)
    /\ TheMutex \in guards[t]
    /\ reg' = [reg EXCEPT ![t] = counter]
    /\ step' = [step EXCEPT ![t] = @ + 1]
    /\ UNCHANGED <<boxVars, mutexVars, value, condVars, rwVars, pc,
                   localVars, now, counter, finalized, acall, guardVars,
                   mapVars, sleep, aborted>>

\* ++*guard, second half: the incremented value is written to m_value.
CounterWrite(t) ==
    /\ step[t] % IterationCalls = 2
    /\ Callable(t)
    /\ TheMutex \in guards[t]
    /\ counter' = reg[t] + 1
    /\ reg' = [reg EXCEPT ![t] = 0]
    /\ step' = [step EXCEPT ![t] = @ + 1]
    /\ UNCHANGED <<boxVars, mutexVars, value, condVars, rwVars, pc,
                   localVars, now, finalized, acall, guardVars, mapVars,
                   sleep, aborted>>

\* The guard goes out of scope at the end of the iteration.
CounterUnlock(t) ==
    /\ step[t] % IterationCalls = 3
    /\ Callable(t)
    /\ TheMutex \in guards[t]
    /\ GetPointer(t, TheMutex, "Unlock", NoRaw)
    /\ step' = [step EXCEPT ![t] = @ + 1]
    /\ UNCHANGED <<now, otherVars>>

NextCount ==
    \E t \in Counters :
        \/ CounterLock(t)
        \/ CounterRead(t)
        \/ CounterWrite(t)
        \/ CounterUnlock(t)
        \/ InitializeCas(t)
        \/ InitializeMutex(t)
        \/ AfterInitialize(t)

SpecCount == Init /\ [][NextCount]_vars

----------------------------------------------------------------------------
(* Teardown: ~PointerValueStorage() and T::Finalize()                      *)

\* Threads of the program that destroys its Mutex<T> and ReadWriteLock<T>.
NumOwners == 2
Owners == 1..NumOwners

\* The boxes the program destroys.
Destroyed == {TheMutex, "rw"}

\* MutexImpl::Finalize(): true, after pthread_mutex_unlock and
\* pthread_mutex_destroy, when pthread_mutex_trylock returned 0; false
\* otherwise, leaving the mutex as it is.
MutexImplFinalize(m, i) == TryLockSucceeds(m, i)

\* ReadWriteLockImpl::Finalize() called by thread t: true, after
\* WriteUnlock() and pthread_rwlock_destroy, when this->TryWrite() returned
\* true; false otherwise, leaving the lock as it is.
ReadWriteLockImplFinalize(t, i) ==
    \E res \in WrLockResults(t, i, TRUE) : ImplTryWriteReturns(res)

\* ptr->Finalize() of thread t on instance i of box b.
Finalize(t, b, i) ==
    IF b \in Mutexes THEN MutexImplFinalize(b, i)
    ELSE ReadWriteLockImplFinalize(t, i)

\* The storage of box b has not been destroyed.
Alive(b) == finalized[b] = "no"

\* ~PointerValueStorage() of box b run by thread t while no call is in
\* progress: ptr = m_inner.load(); if (ptr != nullptr && ptr->Finalize())
\* delete ptr.  finalized records what it found: "null" for no instance,
\* otherwise what Finalize() returned.
Destructor(t, b) ==
    /\ Callable(t)
    /\ \A u \in Threads : pc[u] = "idle"
    /\ Alive(b)
    /\ LET ptr == slot[b] IN
       IF ptr = Null
       THEN /\ finalized' = [finalized EXCEPT ![b] = "null"]
            /\ UNCHANGED heap
       ELSE IF Finalize(t, b, ptr)
       THEN /\ finalized' = [finalized EXCEPT ![b] = "true"]
            /\ heap' = [heap EXCEPT ![b] = @ \ {ptr}]
       ELSE /\ finalized' = [finalized EXCEPT ![b] = "false"]
            /\ UNCHANGED heap
    /\ UNCHANGED <<slot, initialized, mutexVars, value, condVars, rwVars, pc,
                   localVars, now, counter, reg, acall, guardVars, mapVars,
                   sleep, step, aborted>>

\* Threads using one Mutex<T> and one ReadWriteLock<T> from their
\* construction until their destruction; a guard may outlive its lock.
NextTeardown ==
    \E t \in Owners :
        \/ Alive(TheMutex) /\ Lock(t, TheMutex)
        \/ Alive(TheMutex) /\ DestroyGuard(t, TheMutex)
        \/ Alive("rw") /\ Read(t)
        \/ Alive("rw") /\ TryWrite(t)
        \/ Alive("rw") /\ DestroyReaderGuard(t)
        \/ Alive("rw") /\ DestroyWriterGuard(t)
        \/ \E b \in Destroyed : Destructor(t, b)
        \/ InitializeCas(t)
        \/ InitializeMutex(t)
        \/ InitializeRW(t)
        \/ AfterInitialize(t)

SpecTeardown == Init /\ [][NextTeardown]_vars

----------------------------------------------------------------------------
(* The blocking acquires of Mutex<T> and ReadWriteLock<T> together         *)

\* Threads using one Mutex<T> and one ReadWriteLock<T> through the blocking
\* calls Lock(), Read() and Write() from their construction on.
NextBlocking ==
    \E t \in Owners :
        \/ Lock(t, TheMutex)
        \/ DestroyGuard(t, TheMutex)
        \/ Read(t)
        \/ Write(t)
        \/ DestroyReaderGuard(t)
        \/ DestroyWriterGuard(t)
        \/ InitializeCas(t)
        \/ InitializeMutex(t)
        \/ InitializeRW(t)
        \/ AfterInitialize(t)

SpecBlocking == Init /\ [][NextBlocking]_vars

----------------------------------------------------------------------------
(* The predicate waits of ConditionVariable                                 *)

\* Threads that lock two Mutex<bool>, change the protected values and call
\* Wait(guard), Wait(guard, pred) and WaitFor(guard, time, pred) on one
\* ConditionVariable from their construction on, up to the point where a
\* call parks its thread: no notification is sent and no wait ends.
NextPred ==
    \E t \in CondThreads :
        \/ \E m \in Mutexes :
              \/ Lock(t, m)
              \/ DestroyGuard(t, m)
              \/ SetValue(t, m)
              \/ Wait(t, m)
              \/ WaitPred(t, m)
              \/ \E d \in Durations : WaitForPred(t, m, d)
        \/ InitializeCas(t)
        \/ InitializeMutex(t)
        \/ InitializeCondVar(t)
        \/ AfterInitialize(t)
        \/ CheckPred(t)

SpecPred == Init /\ [][NextPred]_vars

----------------------------------------------------------------------------
(* The non-blocking acquires of Mutex<T> and ReadWriteLock<T>               *)

\* Threads that only use TryLock, TryRead and TryWrite on one Mutex<T> and
\* one ReadWriteLock<T> from their construction on, and drop the guards they
\* get.
NextTry ==
    \E t \in Owners :
        \/ TryLock(t, TheMutex)
        \/ DestroyGuard(t, TheMutex)
        \/ TryRead(t)
        \/ TryWrite(t)
        \/ DestroyReaderGuard(t)
        \/ DestroyWriterGuard(t)
        \/ InitializeCas(t)
        \/ InitializeMutex(t)
        \/ InitializeRW(t)
        \/ AfterInitialize(t)

SpecTry == Init /\ [][NextTry]_vars

----------------------------------------------------------------------------
(* alignment.hpp: AlignUp, AlignDown and IsAligned on an unsigned type      *)

\* The width in bits of the unsigned type T (and of U = make_unsigned_t<T>).
ValueBits == 5

\* 2^n.
RECURSIVE Pow2(_)
Pow2(n) == IF n = 0 THEN 1 ELSE 2 * Pow2(n - 1)

\* The values of T, and the powers of two passed as align (a std::size_t,
\* which also holds 2^ValueBits).
Values == 0..(Pow2(ValueBits) - 1)
Aligns == {Pow2(k) : k \in 0..ValueBits}

\* a & b on unsigned operands of n bits.
RECURSIVE BitAnd(_, _, _)
BitAnd(a, b, n) ==
    IF n = 0 THEN 0
    ELSE (a % 2) * (b % 2) + 2 * BitAnd(a \div 2, b \div 2, n - 1)

\* ~a on an unsigned operand of ValueBits bits.
BitNot(a) == Pow2(ValueBits) - 1 - a

\* impl::IsPowerOfTwo(value): (value > 0) && ((value & (value - 1)) == 0).
IsPowerOfTwo(val) ==
    val > 0 /\ BitAnd(val, val - 1, ValueBits + 1) = 0

\* const U mask = static_cast<U>(align - 1).
Mask(align) == (align - 1) % Pow2(ValueBits)

\* An AlignUp that leaves out the mask addition.
AlignUpTruncates(val, align) ==
    BitAnd(val, BitNot(Mask(align)), ValueBits)

\* AlignUp(value, align): static_cast<T>((value + mask) & ~mask), in the
\* arithmetic of T (the sum wraps at 2^ValueBits).
AlignUp(val, align) ==
    BitAnd((val + Mask(align)) % Pow2(ValueBits), BitNot(Mask(align)),
           ValueBits)

\* An AlignDown that keeps the bits under the mask.
AlignDownKeeps(val, align) == val

\* AlignDown(value, align): static_cast<T>(value & ~mask).
AlignDown(val, align) ==
    BitAnd(val, BitNot(Mask(align)), ValueBits)

\* IsAligned(value, align): (value & mask) == 0.
IsAligned(val, align) == BitAnd(val, Mask(align), ValueBits) = 0

\* A call of fn on (value, align): the result it returns.
Apply(fn, val, align) ==
    CASE fn = "AlignUp" -> AlignUp(val, align)
      [] fn = "AlignDown" -> AlignDown(val, align)
      [] fn = "IsAligned" -> IsAligned(val, align)

runVars == <<boxVars, mutexVars, value, condVars, rwVars, pc, localVars,
             now, step, counter, reg, finalized>>
syncVars == <<runVars, aborted>>

\* A call of an alignment function on a value of T and a power of two; the
\* V_DEBUG_ASSERT(impl::IsPowerOfTwo(align)) holds.
AlignCall(fn, v, a) ==
    /\ IsPowerOfTwo(a)
    /\ acall' = [fn |-> fn, value |-> v, align |-> a,
                 result |-> Apply(fn, v, a)]
    /\ UNCHANGED <<syncVars, guardVars, mapVars, sleep>>

\* AlignUp or AlignDown called again on the result of the last call, with
\* the same align.
AlignAgain ==
    /\ acall.fn \in {"AlignUp", "AlignDown"}
    /\ acall' = [acall EXCEPT !.value = acall.result,
                              !.result = Apply(acall.fn, acall.result,
                                               acall.align)]
    /\ UNCHANGED <<syncVars, guardVars, mapVars, sleep>>

NextAlign ==
    \/ \E fn \in {"AlignUp", "AlignDown", "IsAligned"}, v \in Values,
          a \in Aligns : AlignCall(fn, v, a)
    \/ AlignAgain

SpecAlign == Init /\ [][NextAlign]_vars

----------------------------------------------------------------------------
(* scope_guard.hpp: ScopeGuard<Fn> and V_ON_SCOPE_EXIT                       *)

\* The most guards declared in the scope.
MaxGuards == 3

\* The ways control leaves a scope: falling off its end, a return (break,
\* continue, goto) out of it, an exception propagating out of it.
ExitPaths == {"end", "return", "throw"}

\* ScopeGuard(Fn fn): m_fn(std::move(fn)), m_active(true). fn names the
\* block; cancelled tells that the program called Cancel() on the guard,
\* moved that another guard was move-constructed from it, destroyed that
\* its destructor ran, runs how often the destructor called m_fn().
ScopeGuard(fn) ==
    [fn |-> fn, active |-> TRUE, cancelled |-> FALSE, moved |-> FALSE,
     destroyed |-> FALSE, runs |-> 0]

\* V_ON_SCOPE_EXIT { block }: a guard of a new block is declared in the
\* scope (ScopeGuardToken{}->*[&]() { block }).
OnScopeExit ==
    /\ path = "in"
    /\ Len(sg) < MaxGuards
    /\ sg' = Append(sg, ScopeGuard(Len(sg) + 1))
    /\ UNCHANGED <<syncVars, acall, path, mapVars, sleep>>

\* ScopeGuard::Cancel() on the i-th guard: m_active = false.
Cancel(i) ==
    /\ path = "in"
    /\ sg' = [sg EXCEPT ![i].active = FALSE, ![i].cancelled = TRUE]
    /\ UNCHANGED <<syncVars, acall, path, mapVars, sleep>>

\* ScopeGuard(ScopeGuard &&rhs) with the i-th guard as rhs: the new guard
\* takes m_fn and m_active of rhs, then rhs.Cancel().
MoveConstruct(i) ==
    /\ path = "in"
    /\ Len(sg) < MaxGuards
    /\ sg' = Append([sg EXCEPT ![i].active = FALSE, ![i].moved = TRUE],
                    [ScopeGuard(sg[i].fn) EXCEPT !.active = sg[i].active])
    /\ UNCHANGED <<syncVars, acall, path, mapVars, sleep>>

\* Control leaves the scope on one of the exit paths.
Leave(how) ==
    /\ path = "in"
    /\ path' = how
    /\ UNCHANGED <<syncVars, acall, sg, mapVars, sleep>>

\* The guards whose destructor has not run.
Undestroyed == {i \in 1..Len(sg) : ~sg[i].destroyed}

\* A destructor that calls m_fn() whatever m_active is.
RunsInactive(g) == TRUE

\* ~ScopeGuard(): if (m_active).
RunsBlock(g) == g.active

\* Leaving the scope destroys its guards, the last declared first:
\* ~ScopeGuard() calls m_fn() if m_active.
DestroyScopeGuard ==
    /\ path \in ExitPaths
    /\ Undestroyed # {}
    /\ LET i == CHOOSE j \in Undestroyed : \A k \in Undestroyed : k <= j
       IN sg' = [sg EXCEPT ![i].destroyed = TRUE,
                           ![i].runs = IF RunsBlock(sg[i]) THEN @ + 1
                                       ELSE @]
    /\ UNCHANGED <<syncVars, acall, path, mapVars, sleep>>

NextGuard ==
    \/ OnScopeExit
    \/ \E i \in 1..Len(sg) : Cancel(i)
    \/ \E i \in 1..Len(sg) : MoveConstruct(i)
    \/ \E how \in ExitPaths : Leave(how)
    \/ DestroyScopeGuard

SpecGuard == Init /\ [][NextGuard]_vars

----------------------------------------------------------------------------
(* MemoryMapped<Mode> and impl::MemoryMapped (unix) on a target whose       *)
(* std::size_t and std::uintptr_t have ValueBits bits                       *)

\* The width in bits of std::uint64_t relative to the pointer width: the
\* target's pointers are narrower than the file size type.
FileBits == ValueBits + 1

\* sysconf(_SC_PAGE_SIZE), a power of two.
AllocationGranularity == 4

\* The sizes fstat can report (std::uint64_t), the offsets a caller can pass
\* (std::size_t) and the page-aligned addresses mmap returns.
FileSizes == 0..(Pow2(FileBits) - 1)
Offsets == Values
MmapAddresses == {AllocationGranularity, 2 * AllocationGranularity}

\* MAP_FAILED.
MapFailed == 0

\* An OS call: its name, the address (for mmap, the file offset) and length
\* passed to it, and whether it succeeded.
SysCall(name, addr, len, ok) ==
    [name |-> name, addr |-> addr, len |-> len, ok |-> ok]

\* What an operation leaves in mcall; the wrapper throws std::system_error
\* when res != Success.
Returned(op, sys, res) ==
    [op |-> op, sys |-> sys, res |-> res, thrown |-> res # MmapResultSuccess]

\* impl::MemoryMapped::IsMapped(): m_ptr != nullptr.
IsMapped(o) == mptr[o] # 0

\* MemoryMapped::GetLength(): m_impl.GetLength().
GetLength(o) == mlen[o]

\* impl::MemoryMapped::Map(fd, protect, flags, offset, len) on object o, as
\* the last step of the factory op; mm is what mmap returns. A factory that
\* throws destroys the object it was about to return.
MapImpl(op, o, offset, len, mm, before) ==
    LET aligned_offset == AlignDown(offset, AllocationGranularity)
        alignment == offset - aligned_offset
        aligned_len == (len + alignment) % Pow2(ValueBits)
        call == SysCall("mmap", aligned_offset, aligned_len, mm # MapFailed)
    IN  /\ aligned_len = 0 => mm = MapFailed
        /\ IF mm = MapFailed
           THEN /\ mcall' = Returned(op, Append(before, call),
                                     IF aligned_len = 0 THEN "EINVAL"
                                     ELSE "ENOMEM")
                /\ UNCHANGED <<mobjs, mptr, mlen>>
           ELSE /\ mptr' = [mptr EXCEPT ![o] = mm + alignment]
                /\ mlen' = [mlen EXCEPT ![o] = len]
                /\ mobjs' = mobjs \cup {o}
                /\ mcall' = Returned(op, Append(before, call),
                                     MmapResultSuccess)
        /\ UNCHANGED <<dirty, aborted>>

\* len > std::numeric_limits<std::uint64_t>::max(), for a std::uint64_t len.
ExceedsLimit(len) == len > Pow2(FileBits) - 1

\* MemoryMapped::MapWithOffset(file, offset) (Map(file) is offset 0) through
\* MapWithOffsetImpl: size is the file's size, stat tells whether fstat
\* succeeds, mm is what mmap returns. len, a std::uint64_t, is converted to
\* the std::size_t parameter of MapImpl.
MapWithOffset(size, offset, stat, mm) ==
    /\ ~aborted
    /\ mcall.op = "none"
    /\ LET fstat == SysCall("fstat", 0, 0, stat)
           len == size - offset
       IN  IF ~stat
           THEN /\ mm = MapFailed
                /\ mcall' = Returned("MapWithOffset", <<fstat>>, "EBADF")
                /\ UNCHANGED <<mobjs, mptr, mlen, dirty, aborted>>
           ELSE IF ~(size >= offset)
           THEN /\ mm = MapFailed
                /\ aborted' = TRUE
                /\ UNCHANGED mapVars
           ELSE IF FileBits # ValueBits /\ ExceedsLimit(len)
           THEN /\ mm = MapFailed
                /\ mcall' = Returned("MapWithOffset", <<fstat>>,
                                     MmapResultFileTooLarge)
                /\ UNCHANGED <<mobjs, mptr, mlen, dirty, aborted>>
           ELSE MapImpl("MapWithOffset", "mapped", offset,
                        len % Pow2(ValueBits), mm, <<fstat>>)
    /\ UNCHANGED <<runVars, acall, guardVars, sleep>>

\* A store through GetPtr() into the mapping of o.
Store(o) ==
    /\ o \in mobjs
    /\ IsMapped(o)
    /\ GetLength(o) > 0
    /\ dirty' = TRUE
    /\ mcall' = Returned("Store", <<>>, MmapResultSuccess)
    /\ UNCHANGED <<syncVars, acall, guardVars, sleep, mobjs, mptr, mlen>>

\* impl::MemoryMapped::Flush(offset, len) of o: the OS calls it issues and
\* its result; os tells whether msync succeeds.
ImplFlush(o, offset, len, os) ==
    IF IsMapped(o)
    THEN Returned("Flush", <<>>, MmapResultSuccess)
    ELSE LET ptr == mptr[o]
             alignment == (ptr + offset) % AllocationGranularity
             unaligned_offset == (offset - alignment) % Pow2(ValueBits)
             unaligned_len == (len + alignment) % Pow2(ValueBits)
         IN  Returned("Flush",
                      <<SysCall("msync(MS_SYNC)",
                                (ptr + unaligned_offset) % Pow2(ValueBits),
                                unaligned_len, os)>>,
                      IF os THEN MmapResultSuccess ELSE "ENOMEM")

\* The call writes back the whole mapping of o.
WritesBack(call, o) ==
    /\ call.name = "msync(MS_SYNC)"
    /\ call.ok
    /\ IsMapped(o)
    /\ call.addr <= mptr[o]
    /\ call.addr + call.len >= mptr[o] + mlen[o]

\* MemoryMapped<ReadWrite>::Flush() of o: m_impl.Flush(0, GetLength()),
\* throwing when the result is not Success.
Flush(o, os) ==
    /\ o \in mobjs
    /\ mcall' = ImplFlush(o, 0, GetLength(o), os)
    /\ dirty' = IF \E i \in 1..Len(mcall'.sys) : WritesBack(mcall'.sys[i], o)
                THEN FALSE ELSE dirty
    /\ UNCHANGED <<syncVars, acall, guardVars, sleep, mobjs, mptr, mlen>>

\* impl::MemoryMapped(MemoryMapped &&rhs) with the factory's object as rhs:
\* the new object takes m_ptr and m_len, rhs is reset.
MoveMapped ==
    /\ "mapped" \in mobjs
    /\ "target" \notin mobjs
    /\ mobjs' = mobjs \cup {"target"}
    /\ mptr' = [mptr EXCEPT !["target"] = mptr["mapped"], !["mapped"] = 0]
    /\ mlen' = [mlen EXCEPT !["target"] = mlen["mapped"], !["mapped"] = 0]
    /\ mcall' = Returned("Move", <<>>, MmapResultSuccess)
    /\ UNCHANGED <<syncVars, acall, guardVars, sleep, dirty>>

\* impl::MemoryMapped::~MemoryMapped() of o: Unmap(), which returns at once
\* if (this->IsMapped()) and calls munmap otherwise.
Unmap(o) ==
    /\ o \in mobjs
    /\ mobjs' = mobjs \ {o}
    /\ mcall' = Returned("Unmap",
                         IF IsMapped(o) THEN <<>>
                         ELSE <<SysCall("munmap",
                                   (mptr[o] - (mptr[o] % AllocationGranularity))
                                       % Pow2(ValueBits),
                                   (mlen[o] + (mptr[o] % AllocationGranularity))
                                       % Pow2(ValueBits),
                                   FALSE)>>,
                         MmapResultSuccess)
    /\ UNCHANGED <<syncVars, acall, guardVars, sleep, mptr, mlen, dirty>>

NextMap ==
    \/ \E size \in FileSizes, offset \in Offsets, stat \in BOOLEAN,
          mm \in MmapAddresses \cup {MapFailed} :
           MapWithOffset(size, offset, stat, mm)
    \/ \E o \in MapObjects : Store(o)
    \/ \E o \in MapObjects, os \in BOOLEAN : Flush(o, os)
    \/ MoveMapped
    \/ \E o \in MapObjects : Unmap(o)

SpecMap == Init /\ [][NextMap]_vars

----------------------------------------------------------------------------
(* The Windows CondVarImpl: the timeout WaitUntil hands to                 *)
(* SleepConditionVariableSRW.                                              *)

\* The width of DWORD, standing for 32 bits.
DwordBits == 3

\* The ticks of the clock's duration type in one millisecond.
TicksPerMs == 2

\* constexpr DWORD WindowsInfinite = std::numeric_limits<DWORD>::max().
WindowsInfinite == Pow2(DwordBits) - 1

\* The time points handed to WaitUntil and read from the clock, in ticks:
\* remaining times from before -WindowsInfinite to after it.
WinTimes == 0 .. (WindowsInfinite + 3) * TicksPerMs

\* std::chrono::duration_cast<std::chrono::milliseconds>: the integer
\* division of the tick count, which truncates towards zero.
DurationCastMs(ticks) ==
    IF ticks >= 0 THEN ticks \div TicksPerMs ELSE -((-ticks) \div TicksPerMs)

\* std::min on the signed representation of std::chrono::milliseconds.
StdMin(a, b) == IF b < a THEN b ELSE a

\* static_cast<DWORD>(duration): the value modulo 2^DwordBits.
StaticCastDword(count) == count % Pow2(DwordBits)

\* The dwMilliseconds argument WaitUntil computes from the deadline and the
\* clock: reltime, ms, duration and the cast.
SleepTimeout(time, sysnow) ==
    LET reltime == time - sysnow
        ms == DurationCastMs(reltime)
        duration == StdMin(ms, WindowsInfinite)
    IN  StaticCastDword(duration)

\* CondVarImpl::WaitUntil(mutex, time) up to its call of
\* SleepConditionVariableSRW, with the clock reading sysnow.
WindowsWaitUntil(time, sysnow) ==
    /\ sleep.state # "sleeping"
    /\ sleep' = [state |-> "sleeping", time |-> time, now |-> sysnow,
                 timeout |-> SleepTimeout(time, sysnow)]
    /\ UNCHANGED <<syncVars, counter, reg, finalized, acall, guardVars,
                   mapVars>>

\* SleepConditionVariableSRW returns 0 with ERROR_TIMEOUT: its time-out
\* interval has elapsed, which an interval of INFINITE never does.
\* WaitUntil returns false.
SleepTimesOut ==
    /\ sleep.state = "sleeping"
    /\ sleep.timeout # WindowsInfinite
    /\ sleep' = [sleep EXCEPT !.state = "false"]
    /\ UNCHANGED <<syncVars, counter, reg, finalized, acall, guardVars,
                   mapVars>>

\* SleepConditionVariableSRW returns nonzero: the thread was woken.
\* WaitUntil returns true.
SleepWoken ==
    /\ sleep.state = "sleeping"
    /\ sleep' = [sleep EXCEPT !.state = "true"]
    /\ UNCHANGED <<syncVars, counter, reg, finalized, acall, guardVars,
                   mapVars>>

\* Calls of the Windows WaitUntil with every deadline and clock reading.
NextSleep ==
    \/ \E time \in WinTimes, sysnow \in WinTimes : WindowsWaitUntil(time, sysnow)
    \/ SleepTimesOut
    \/ SleepWoken

SpecSleep == Init /\ [][NextSleep]_vars

----------------------------------------------------------------------------
(* Properties of Mutex<T> and of the lazy box                              *)

\* The threads holding a live MutexGuard of mutex m.
GuardHolders(m) == {t \in Threads : m \in guards[t]}

\* C1: mutual exclusion -- in every reachable state, the first concurrent
\* uses of a freshly constructed mutex included, at most one thread holds a
\* live MutexGuard of a given Mutex<T>.
C1_MutualExclusion == \A m \in Mutexes : Cardinality(GuardHolders(m)) <= 1

\* The raw operations of a MutexImpl.
MutexOps == {"Lock", "TryLock", "Unlock"}

\* This step is a raw mutex operation of thread t on instance i of mutex m.
UsesMutex(t, m, i) ==
    /\ i # Null
    /\ \/ pc[t] = "idle" /\ slot[m] = i
       \/ pc[t] = "raw" /\ tbox[t] = m /\ tinst[t] = i
    /\ \E op \in MutexOps : RawCall(t, op, m, i, NoRaw)

\* C2: a lazily boxed raw primitive is never used before its Initialize()
\* has completed -- every raw operation a thread performs on the instance
\* Get() returned finds that instance initialized.
C2_NoUseBeforeInitialize ==
    [][\A t \in Threads : \A m \in Mutexes : \A i \in Threads :
          UsesMutex(t, m, i) => i \in initialized[m]]_vars

\* The first access of box b is over: the pointer is installed and no
\* thread is inside PointerValueStorage::Initialize() for b.
Settled(b) ==
    /\ slot[b] # Null
    /\ \A t \in Threads : ~(tbox[t] = b /\ pc[t] \in {"cas", "init"})

\* The calls of ptr->Initialize() on box b: those in progress and those
\* that have completed.
InitializeCalls(b) ==
    Cardinality({t \in Threads : tbox[t] = b /\ pc[t] = "init"})
    + Cardinality(initialized[b])

\* Initialize() runs at most once per box and on the installed instance
\* only, every call of the accessor returns the installed instance, and once
\* the race is over exactly the installed instance is allocated and
\* initialized.
OneInstance ==
    \A b \in Boxes :
        /\ InitializeCalls(b) <= 1
        /\ initialized[b] \subseteq ({slot[b]} \ {Null})
        /\ \A t \in Threads :
              tbox[t] = b /\ pc[t] \in {"init", "raw"} => tinst[t] = slot[b]
        /\ Settled(b) => initialized[b] = {slot[b]} /\ heap[b] = {slot[b]}

\* An installed pointer is never replaced.
InstalledOnce == \A b \in Boxes : slot[b] # Null => slot'[b] = slot[b]

\* C8: idempotent lazy initialization -- when the threads race on the first
\* access, exactly one instance is ever installed, Initialize() is called
\* exactly once in total and every call returns that instance.
C8_IdempotentLazyInit == []OneInstance /\ [][InstalledOnce]_vars

\* A thread that lost the race has been handed the winner's instance, its
\* own allocation is deleted and the winner has initialized the instance.
C8_Witness ==
    \E t \in Threads :
        /\ pc[t] = "raw"
        /\ tinst[t] # t
        /\ Settled(tbox[t])
        /\ heap[tbox[t]] = {tinst[t]}
        /\ initialized[tbox[t]] = {tinst[t]}

----------------------------------------------------------------------------
(* Properties of ReadWriteLock<T>                                          *)

\* The live ReaderGuard / WriterGuard objects of the lock.
LiveReaderGuards == SumOver(rguards, Threads)
LiveWriterGuards == SumOver(wguards, Threads)

\* C3: reader-writer exclusivity -- whenever a WriterGuard is live, no other
\* guard (ReaderGuard or WriterGuard) of the same lock is live.
C3_WriterExcludesAll ==
    LiveWriterGuards >= 1 => LiveWriterGuards + LiveReaderGuards = 1

\* A WriterGuard is live while two other threads are about to call TryWrite
\* and Read on the same lock.
C3_Witness ==
    \E t, u, v \in Threads :
        /\ wguards[t] = 1
        /\ rwWriter[slot["rw"]] = t
        /\ pc[u] = "raw" /\ top[u] = "TryWrite"
        /\ pc[v] = "raw" /\ top[v] = "Read"

----------------------------------------------------------------------------
(* Properties of ConditionVariable                                         *)

\* Thread t parks in this step.
Parks(t) == pc[t] # "parked" /\ pc'[t] = "parked"

\* The primitive wait of thread t returns in this step.
WaitReturns(t) == pc[t] = "reacquire" /\ pc'[t] # "reacquire"

\* The thread holding raw mutex r, before and after the step.
Holder(r) == owner[r[1]][r[2]]
HolderAfter(r) == owner'[r[1]][r[2]]

\* C4: Wait(guard) releases the mutex behind the guard and parks the caller
\* as one atomic step -- in the step after which the caller no longer holds
\* the mutex it is already registered with the condition variable, so no
\* notification can fall between the release and the parking -- and when
\* the wait returns, by notification or spuriously, the caller holds that
\* mutex again.
C4_AtomicReleaseAndRelock ==
    [][\A t \in CondThreads :
          /\ Parks(t) => /\ t \in waiters'[tinst'[t]]
                         /\ HolderAfter(wraw'[t]) # t
          /\ WaitReturns(t) => HolderAfter(wraw[t]) = t]_vars

\* A thread that was parked in Wait(guard) has been woken while another
\* thread holds the mutex: its wait has not returned.
C4_Witness ==
    \E t, u \in CondThreads :
        /\ t # u
        /\ pc[t] = "reacquire"
        /\ top[t] = "Wait"
        /\ Holder(wraw[t]) = u
        /\ wraw[t][1] \in guards[u]

\* Thread t evaluates the predicate of Wait(guard, pred) in this step and
\* leaves the loop condition.
EvaluatesPred(t) == pc[t] = "check" /\ pc'[t] # "check"

\* C6: Wait(guard, predicate) returns only in a state where
\* predicate(*guard) holds, whatever the spurious wakeups, and every
\* evaluation of the predicate happens while the caller holds the mutex.
C6_PredicateUnderMutex ==
    [][\A t \in CondThreads :
          EvaluatesPred(t) =>
              /\ Holder(wraw[t]) = t
              /\ pc'[t] = "idle" => Pred(wraw[t][1])]_vars

\* The guard thread t passed to its wait is of another mutex than the one
\* the condition variable is bound to.
Mismatch(t) ==
    /\ slot["cv"] # Null
    /\ bound[slot["cv"]] \notin {NoRaw, wraw[t]}

\* C9: cross-mutex misuse is fatal -- once the condition variable is bound,
\* a wait called with a guard of a different mutex neither waits nor
\* returns: no thread parks with such a guard and no predicate wait called
\* with such a guard leaves its loop.
C9_CrossMutexFatal ==
    [][\A t \in CondThreads :
          /\ Parks(t) => bound[tinst'[t]] \in {NoRaw, wraw'[t]}
          /\ pc[t] = "check" /\ Mismatch(t) => pc'[t] = "check"]_vars

\* A wait call of thread t returns or parks in this step.
WaitCallActs(t) == Parks(t) \/ (pc[t] = "check" /\ pc'[t] = "idle")

\* C10: the binding state machine -- the condition variable starts Unbound,
\* the first wait call of any variant binds it to the mutex of the guard
\* passed, and from then on the bound mutex never changes and the variable
\* never returns to Unbound.
C10_BindingStateMachine ==
    /\ \A i \in Threads : bound[i] = NoRaw
    /\ [][/\ \A i \in Threads : bound[i] # NoRaw => bound'[i] = bound[i]
          /\ \A t \in CondThreads :
                WaitCallActs(t) =>
                    /\ slot'["cv"] # Null
                    /\ bound'[slot'["cv"]] # NoRaw]_vars

\* The waker has locked the mutex, made the predicate true, released the
\* mutex and called NotifyOne(), all after the waiter blocked.
WakerDone == step[Waker] = 4 /\ pc[Waker] = "idle"

\* The waiter's Wait(guard, pred) has returned and the waiter, holding the
\* mutex, finds the predicate true.
WaiterReturned ==
    /\ step[Waiter] = 2
    /\ pc[Waiter] = "idle"
    /\ Holder(Raw(TheMutex, slot[TheMutex])) = Waiter
    /\ Pred(TheMutex)

\* C5: no lost wakeup -- if the waiter is blocked in Wait(guard, pred) with
\* the predicate false and the waker then locks the mutex, makes the
\* predicate true, releases the mutex and calls NotifyOne(), the waiter's
\* wait eventually returns under fair scheduling, and the waiter observes
\* the predicate true.
C5_NoLostWakeup == WakerDone ~> WaiterReturned

\* The waiter has returned with the predicate true after the waker's
\* notification.
C5_Witness == WakerDone /\ WaiterReturned

----------------------------------------------------------------------------
(* Properties of the guards                                                *)

\* Every permit of a raw lock belongs to a live guard: a locked mutex is
\* locked by a thread with a live MutexGuard, the write lock is held exactly
\* by the thread with the live WriterGuard, and each thread holds as many
\* read locks as it has live ReaderGuards.
PermitsHaveGuards ==
    \A t, i \in Threads :
        /\ owner[TheMutex][i] = t => TheMutex \in guards[t]
        /\ slot["rw"] = i =>
              /\ rwReaders[i][t] = rguards[t]
              /\ rwWriter[i] = t <=> wguards[t] = 1

\* The later thread holds the mutex and the write lock through its guards.
LaterHolds ==
    /\ TheMutex \in guards[Later]
    /\ Holder(Raw(TheMutex, slot[TheMutex])) = Later
    /\ wguards[Later] = 1
    /\ rwWriter[slot["rw"]] = Later

----------------------------------------------------------------------------
(* Properties of the try operations                                        *)

\* This step is the raw call of a TryLock() of thread t on instance i of
\* mutex m.
TryLockStep(t, m, i) ==
    /\ i # Null
    /\ \/ pc[t] = "idle" /\ slot[m] = i
       \/ pc[t] = "raw" /\ top[t] = "TryLock" /\ tbox[t] = m /\ tinst[t] = i
    /\ RawCall(t, "TryLock", m, i, NoRaw)

\* A thread in its own code can always take the step of a TryLock().
TryLockNeverBlocks ==
    \A t \in Threads : Callable(t) => ENABLED TryLock(t, TheMutex)

\* TryLock() returns a guard exactly when the mutex was free, and an empty
\* optional when another thread holds it.
TryLockReports ==
    \A t, i \in Threads :
        TryLockStep(t, TheMutex, i) =>
            /\ ret'[t] = "guard" <=> owner[TheMutex][i] = Null
            /\ owner[TheMutex][i] \notin {Null, t} => ret'[t] = "empty"
            /\ ret'[t] = "guard" => owner'[TheMutex][i] = t

\* A thread that still has the guard TryLock() returned to it holds the
\* mutex, and nobody else has a guard of it.
TryLockGuardExclusive ==
    \A t \in Threads :
        ret[t] = "guard" /\ TheMutex \in guards[t] =>
            /\ owner[TheMutex][slot[TheMutex]] = t
            /\ GuardHolders(TheMutex) = {t}

\* C11: TryLock() never blocks, returns an empty optional when the mutex is
\* held by another thread and a guard exactly when the mutex was free, and
\* in that case the caller holds the mutex exclusively until the guard is
\* destroyed.
C11_TryLock ==
    /\ []TryLockNeverBlocks
    /\ [][TryLockReports]_vars
    /\ []TryLockGuardExclusive

\* This step is the raw call of a TryRead() / TryWrite() of thread t on
\* instance i of the lock.
TryRWStep(t, op, i) ==
    /\ i # Null
    /\ \/ pc[t] = "idle" /\ slot["rw"] = i
       \/ pc[t] = "raw" /\ top[t] = op /\ tbox[t] = "rw" /\ tinst[t] = i
    /\ RawCall(t, op, "rw", i, NoRaw)

\* A thread in its own code can always take the step of a TryRead() and of
\* a TryWrite(): neither waits.
TryRWNeverBlocks ==
    \A t \in Threads :
        Callable(t) => ENABLED TryRead(t) /\ ENABLED TryWrite(t)

\* TryWrite() returns a WriterGuard exactly when no guard of the lock is
\* live, and an empty optional otherwise.
TryWriteReports ==
    \A t, i \in Threads :
        TryRWStep(t, "TryWrite", i) =>
            /\ ret'[t] \in {"guard", "empty"}
            /\ ret'[t] = "guard" <=> LiveReaderGuards + LiveWriterGuards = 0
            /\ ret'[t] = "guard" => rwWriter'[i] = t /\ wguards'[t] = 1

----------------------------------------------------------------------------
(* Properties of the timed waits                                           *)

\* Thread t returns from WaitFor(guard, time) in this step.
WaitForReturns(t) ==
    pc[t] = "reacquire" /\ top[t] = "WaitFor" /\ pc'[t] = "idle"

\* No thread has notified the condition variable.
NeverNotified == \A u \in CondThreads : step[u] = 0

\* A thread in WaitFor(guard, time) that is parked or unparked.
InWaitFor(t) == top[t] = "WaitFor" /\ pc[t] \in {"parked", "reacquire"}

WaitForPredReturns(t) ==
    top[t] = "WaitForPred" /\ pc[t] \in {"check", "last"} /\ pc'[t] = "idle"

\* The value WaitFor(guard, time, pred) returns is the predicate's value at
\* the moment of return.
ReturnsLastEvaluation ==
    \A t \in CondThreads :
        WaitForPredReturns(t) =>
           (ret'[t] = "true" <=> value'[wraw[t][1]])
           /\ ret'[t] \in {"true", "false"}

\* The evaluation WaitFor(guard, time, pred) returns is made by the thread
\* that holds the mutex.
LastEvaluationUnderMutex ==
    \A t \in CondThreads : WaitForPredReturns(t) => Holder(wraw[t]) = t

\* C14: WaitFor(guard, time, pred) returns the predicate's value as
\* evaluated last, with the mutex held: true if and only if pred(*guard)
\* holds at the moment of return, also after a primitive wait that timed
\* out.
C14_WaitForPredResult ==
    [][ReturnsLastEvaluation /\ LastEvaluationUnderMutex]_vars

\* C14 without the mutex: the returned value alone.
C14_ReturnValue == [][ReturnsLastEvaluation]_vars

\* The last primitive wait of a WaitFor(guard, time, pred) timed out and the
\* predicate holds at the evaluation that follows, under the mutex.
C14_Witness ==
    \E t \in CondThreads :
        /\ top[t] = "WaitForPred"
        /\ pc[t] = "last"
        /\ Pred(wraw[t][1])
        /\ Holder(wraw[t]) = t
        /\ ~aborted

----------------------------------------------------------------------------
(* Properties of the notifications                                         *)

\* The notifier's pthread_cond_signal / pthread_cond_broadcast happens in
\* this step: directly on the installed instance, or at the end of the
\* notifier's Initialize().
NotifyActs ==
    \/ /\ slot["cv"] # Null
       /\ \E op \in {"NotifyOne", "NotifyAll"} :
             EarlyNotify(op) \/ LateNotify(op)
    \/ /\ pc[Notifier] = "raw"
       /\ top[Notifier] \in {"NotifyOne", "NotifyAll"}
       /\ pc'[Notifier] = "idle"

\* No thread is parked on the condition variable.
NoOneParked == \A u \in Threads : pc[u] # "parked"

\* A notification issued while no thread is parked changes nothing of the
\* condition variable, of the mutex or of any other thread.
NotifyNotBuffered ==
    NotifyActs /\ NoOneParked =>
        /\ UNCHANGED <<waiters, bound, owner, guards, value>>
        /\ \A u \in Threads \ {Notifier} : pc'[u] = pc[u]

\* A Wait(guard) never returns without having parked: the call returns only
\* from the relock that follows an unpark.
WaitAlwaysParks ==
    \A w \in Sleepers :
        (SleeperWait(w) \/ top[w] = "Wait") /\ pc'[w] = "idle" =>
            pc[w] = "reacquire" \/ aborted'

\* A parked thread is unparked only by a notification that happens while it
\* is parked, or by a spurious wakeup.
UnparkedByLaterNotify ==
    \A w \in Sleepers :
        pc[w] = "parked" /\ pc'[w] # "parked" =>
            SpuriousWakeup(w) \/ NotifyActs

\* C15: notifications are not buffered -- a NotifyOne() or NotifyAll()
\* issued while no thread is parked on the condition variable changes
\* nothing, and a thread that calls Wait afterwards parks and stays blocked
\* until a later notification or a spurious wakeup.
C15_NotifyNotBuffered ==
    [][NotifyNotBuffered /\ WaitAlwaysParks /\ UnparkedByLaterNotify]_vars

\* A sleeper is parked after the notifier's early notifications, all issued
\* before the first Wait, have returned.
C15_Witness ==
    \E w \in Sleepers :
        /\ pc[w] = "parked"
        /\ w \in waiters[tinst[w]]
        /\ step[Notifier] \in 1..MaxEarly
        /\ pc[Notifier] = "idle"
        /\ ~aborted

\* The notifier's call op takes effect in this step.
NotifierActs(op) ==
    \/ slot["cv"] # Null /\ (EarlyNotify(op) \/ LateNotify(op))
    \/ pc[Notifier] = "raw" /\ top[Notifier] = op /\ pc'[Notifier] = "idle"

\* NotifyAll() unparks every thread that is parked at the call.
ReachesAll ==
    NotifierActs("NotifyAll") =>
        \A w \in Sleepers : pc[w] = "parked" => pc'[w] = "reacquire"

\* NotifyOne() unparks a parked thread when there is one.
WakesOne ==
    NotifierActs("NotifyOne") /\ ~NoOneParked =>
        \E w \in Sleepers : pc[w] = "parked" /\ pc'[w] = "reacquire"

\* An unparked thread relocks the mutex and returns from its wait, or the
\* process is terminated.
UnparkedReturns ==
    \A w \in Sleepers : pc[w] = "reacquire" ~> (pc[w] = "idle" \/ aborted)

\* C16: NotifyAll() reaches every thread parked on the condition variable
\* at the time of the call -- each of them eventually re-acquires the mutex
\* and returns from its wait, under fair scheduling with every holder
\* releasing the mutex -- and NotifyOne() wakes at least one parked thread
\* when any is parked.
C16_NotifyReachesParked ==
    /\ [][ReachesAll /\ WakesOne]_vars
    /\ UnparkedReturns

\* C16, the part on the threads already unparked.
C16_Unparked == UnparkedReturns

\* Both sleepers are parked on the installed condition variable, where a
\* NotifyAll() finds them.
C16_Witness ==
    /\ \A w \in Sleepers : pc[w] = "parked" /\ w \in waiters[slot["cv"]]
    /\ ~aborted

----------------------------------------------------------------------------
(* Properties of the counter                                               *)

\* C17: no lost update under the lock -- when K threads each perform N/K
\* iterations of Lock(), increment through the guard, destroy the guard, the
\* protected counter equals N once all threads have finished.
C17_NoLostUpdate ==
    (\A t \in Counters : Finished(t) /\ pc[t] = "idle") =>
        counter = NumCounters * PerThread

\* All counting threads have finished without the process terminating.
C17_Witness ==
    /\ \A t \in Counters : Finished(t) /\ pc[t] = "idle"
    /\ counter = NumCounters * PerThread
    /\ ~aborted

----------------------------------------------------------------------------
(* Properties of shared mode                                               *)

\* The raw call of a Read() or a TryRead() of thread t on instance i happens
\* in this step.
ReadCallActs(t, i) == TryRWStep(t, "Read", i) \/ TryRWStep(t, "TryRead", i)

\* A thread in its own code is not made to wait by a Read() or a TryRead()
\* while no WriterGuard is live.
ReadersDoNotWait ==
    \A t \in Threads :
        Callable(t) /\ LiveWriterGuards = 0 =>
            ENABLED Read(t) /\ ENABLED TryRead(t)

----------------------------------------------------------------------------
(* Properties of the teardown                                              *)

\* The destructor of box b's storage runs in this step.
DestructorActs(b) == Alive(b) /\ finalized'[b] # "no"

\* Some guard of box b is live.
Held(b) ==
    IF b \in Mutexes THEN \E t \in Threads : b \in guards[t]
    ELSE LiveReaderGuards + LiveWriterGuards > 0

\* The raw lock of the installed instance of box b is held.
RawHeld(b) ==
    IF b \in Mutexes THEN owner[b][slot[b]] # Null
    ELSE rwWriter[slot[b]] # Null \/ ReadHolds(slot[b]) > 0

\* Finalize() is attempted only if an instance is installed, and the heap
\* allocation is freed only if Finalize() returned true.
TeardownFrees ==
    \A b \in Destroyed :
        /\ DestructorActs(b) =>
              /\ finalized'[b] = "null" <=> slot[b] = Null
              /\ finalized'[b] = "true" <=> heap'[b] # heap[b]
              /\ finalized'[b] = "true" => slot[b] \notin heap'[b]
              /\ UNCHANGED <<owner, rwWriter, rwReaders>>
        /\ heap'[b] # heap[b] /\ slot[b] # Null /\ slot[b] \notin heap'[b] =>
              DestructorActs(b)

\* Finalize() returns true only if the raw lock is not held at that moment.
FinalizeOnlyFree ==
    \A b \in Destroyed :
        DestructorActs(b) /\ slot[b] # Null =>
            (finalized'[b] = "true" <=> ~RawHeld(b))

\* A lock some guard holds is not destroyed: it is left intact and leaked.
HeldIsLeaked ==
    \A b \in Destroyed :
        DestructorActs(b) /\ Held(b) =>
            finalized'[b] = "false" /\ heap'[b] = heap[b]

\* C19: lazy-box teardown never destroys a held primitive -- Finalize() is
\* attempted only if an instance was installed, the heap allocation is freed
\* only if Finalize() returns true, and Finalize() of a mutex or
\* reader-writer lock returns true (and destroys the native object) only if
\* the lock was not held by anyone at that moment; a held lock is left
\* intact and leaked.
C19_TeardownSparesHeld ==
    [][TeardownFrees /\ FinalizeOnlyFree /\ HeldIsLeaked]_vars

\* C19 on the raw locks alone.
C19_RawTeardown == [][TeardownFrees /\ FinalizeOnlyFree]_vars

\* A lock was destroyed while a guard of it was live, and leaked.
C19_Witness ==
    \E b \in Destroyed :
        /\ finalized[b] = "false"
        /\ Held(b)
        /\ slot[b] \in heap[b]
        /\ ~aborted

----------------------------------------------------------------------------
(* Properties of the blocking acquires                                     *)

\* The raw call of a Lock() of thread t on instance i of mutex m happens in
\* this step.
LockStep(t, m, i) ==
    /\ i # Null
    /\ \/ pc[t] = "idle" /\ slot[m] = i
       \/ pc[t] = "raw" /\ top[t] = "Lock" /\ tbox[t] = m /\ tinst[t] = i
    /\ RawCall(t, "Lock", m, i, NoRaw)

\* The rwlock refuses t's read lock: t holds the write lock (self-deadlock)
\* or the maximum number of read locks is held.
ReadMisuse(t, i) ==
    rwWriter[i] = t \/ (rwWriter[i] = Null /\ ReadHolds(i) >= MaxReaders)

\* The rwlock refuses t's write lock: t holds the lock (self-deadlock).
WriteMisuse(t, i) == rwWriter[i] = t \/ rwReaders[i][t] > 0

\* A blocking Read() or Write() that acts on a misuse terminates the
\* process and returns nothing.
MisuseIsFatal ==
    \A t, i \in Threads :
        /\ TryRWStep(t, "Read", i) /\ ReadMisuse(t, i) =>
              aborted' /\ pc'[t] = pc[t] /\ UNCHANGED <<ret, rwVars>>
        /\ TryRWStep(t, "Write", i) /\ WriteMisuse(t, i) =>
              aborted' /\ pc'[t] = pc[t] /\ UNCHANGED <<ret, rwVars>>

\* A blocking acquire that returns has taken the permit it was called for,
\* and returns a guard, never an error.
ReturnsWithPermit ==
    \A t, i \in Threads :
        /\ TryRWStep(t, "Read", i) /\ pc'[t] = "idle" /\ ~aborted' =>
              /\ rwReaders'[i][t] = rwReaders[i][t] + 1
              /\ rguards'[t] = rguards[t] + 1
              /\ ret'[t] = "none"
        /\ TryRWStep(t, "Write", i) /\ pc'[t] = "idle" /\ ~aborted' =>
              /\ rwWriter[i] = Null /\ rwWriter'[i] = t
              /\ wguards'[t] = wguards[t] + 1
              /\ ret'[t] = "none"
        /\ LockStep(t, TheMutex, i) =>
              /\ owner'[TheMutex][i] = t
              /\ TheMutex \in guards'[t]
              /\ ret'[t] = "none"

\* C20: programmer misuse on the blocking lock paths is fatal and never
\* surfaces as a returned error -- a blocking Read() that hits reader-count
\* exhaustion or self-deadlock detection and a blocking Write() that hits
\* self-deadlock detection terminate the process, and no blocking acquire
\* (Lock, Read, Write) returns without the requested permit being held.
C20_BlockingMisuseFatal == [][MisuseIsFatal /\ ReturnsWithPermit]_vars

\* The process was terminated by a Read() at reader-count exhaustion: one
\* thread holds every read lock and is inside a Lock(), no writer guard is
\* live, and the mutex has not been installed.
C20_Witness ==
    \E t, u \in Owners :
        /\ aborted
        /\ t # u
        /\ rguards[u] = MaxReaders
        /\ pc[u] = "cas" /\ tbox[u] = TheMutex
        /\ rguards[t] = 0
        /\ LiveWriterGuards = 0

----------------------------------------------------------------------------
(* Properties of a thread relocking its own mutex                          *)

\* A Lock() by a thread that has a live guard of the mutex does not return.
NoSecondGuard ==
    \A t, i \in Threads :
        LockStep(t, TheMutex, i) => TheMutex \notin guards[t]

\* A TryLock() by a thread that has a live guard of the mutex returns an
\* empty optional.
TryLockByHolderFails ==
    \A t, i \in Threads :
        TryLockStep(t, TheMutex, i) /\ TheMutex \in guards[t] =>
            ret'[t] = "empty" /\ guards'[t] = guards[t]

\* C21: Mutex<T> is non-reentrant -- a thread that holds a live MutexGuard
\* of a Mutex and calls Lock() on it never obtains a second guard, and a
\* TryLock() by that thread returns empty.
C21_NonReentrant == [][NoSecondGuard /\ TryLockByHolderFails]_vars

\* A thread holding the guard of the locked mutex got an empty optional from
\* TryLock().
C21_Witness ==
    \E t \in Threads :
        /\ TheMutex \in guards[t]
        /\ owner[TheMutex][slot[TheMutex]] = t
        /\ ret[t] = "empty"

----------------------------------------------------------------------------
(* Properties of the alignment functions *)

\* The last call was of fn.
Called(fn) == acall.fn = fn

\* The next multiple of align at or above value is a value of T.
NextMultipleFits == acall.value + acall.align - 1 < Pow2(ValueBits)

\* The result is the next multiple of align at or above value.
IsNextMultiple ==
    /\ acall.result % acall.align = 0
    /\ acall.result >= acall.value
    /\ acall.result - acall.value < acall.align

\* C23 (as stated): for every unsigned value of the width and every power
\* of two align, AlignUp returns a multiple of align that is at or above
\* value and less than align above it.
C23_AlignUpNextMultiple == Called("AlignUp") => IsNextMultiple

\* C23 (amended): AlignUp returns a multiple of align; it is the next
\* multiple at or above value when that multiple is a value of T, and 0 (the
\* next multiple modulo 2^ValueBits) when it is not.
C23_AlignUpUnlessWraps ==
    Called("AlignUp") =>
        /\ acall.result % acall.align = 0
        /\ IF NextMultipleFits THEN IsNextMultiple ELSE acall.result = 0

C23_Witness ==
    /\ Called("AlignUp")
    /\ NextMultipleFits
    /\ acall.value % acall.align # 0
    /\ acall.result > acall.value

C23_WrapWitness ==
    Called("AlignUp") /\ ~NextMultipleFits /\ acall.value > 0

\* The result is the largest multiple of align that is not above value.
IsLargestMultipleBelow ==
    /\ acall.result % acall.align = 0
    /\ acall.result <= acall.value
    /\ acall.value - acall.result < acall.align

\* IsAligned answers whether value is a multiple of align, and whether
\* AlignDown leaves value alone.
AnswersMultiple ==
    /\ acall.result = (acall.value % acall.align = 0)
    /\ acall.result = (AlignDown(acall.value, acall.align) = acall.value)

\* Applying the function to its own result returns that result.
Idempotent == Apply(acall.fn, acall.result, acall.align) = acall.result

\* C24: AlignDown returns the largest multiple of align not above value;
\* IsAligned is true exactly when value is a multiple of align, which is
\* exactly when AlignDown returns value; AlignDown and AlignUp are
\* idempotent.
C24_AlignDownAndIsAligned ==
    /\ Called("AlignDown") => IsLargestMultipleBelow /\ Idempotent
    /\ Called("IsAligned") => AnswersMultiple
    /\ Called("AlignUp") => Idempotent

C24_Witness ==
    /\ Called("AlignDown")
    /\ acall.value % acall.align # 0
    /\ acall.result < acall.value
    /\ acall.result > 0

----------------------------------------------------------------------------
(* Properties of the scope guard *)

\* The scope has been left and all its guards are destroyed.
ScopeLeft == path \in ExitPaths /\ Undestroyed = {}

\* The i-th guard was created with V_ON_SCOPE_EXIT (not move-constructed).
DeclaredHere(i) == sg[i].fn = i

\* How often the block fn has run.
RECURSIVE BlockRuns(_, _)
BlockRuns(fn, n) ==
    IF n = 0 THEN 0
    ELSE (IF sg[n].fn = fn THEN sg[n].runs ELSE 0) + BlockRuns(fn, n - 1)

\* C25: a block given to V_ON_SCOPE_EXIT does not run while control is in
\* the scope; once the scope is left, on any exit path, a guard created
\* with V_ON_SCOPE_EXIT that was neither cancelled nor moved from has run
\* its block exactly once; a guard
\* on which Cancel() was called has not run its block; no block runs twice.
C25_ScopeGuardRuns ==
    /\ path = "in" => \A i \in 1..Len(sg) : sg[i].runs = 0
    /\ \A i \in 1..Len(sg) : sg[i].cancelled => sg[i].runs = 0
    /\ \A i \in 1..Len(sg) : BlockRuns(sg[i].fn, Len(sg)) <= 1
    /\ ScopeLeft =>
           \A i \in 1..Len(sg) :
               DeclaredHere(i) /\ ~sg[i].cancelled /\ ~sg[i].moved
                   => sg[i].runs = 1

C25_Witness ==
    /\ ScopeLeft
    /\ path = "throw"
    /\ \E i, j \in 1..Len(sg) :
           /\ sg[i].cancelled /\ sg[i].runs = 0
           /\ DeclaredHere(j) /\ ~sg[j].cancelled /\ sg[j].runs = 1

----------------------------------------------------------------------------
(* Properties of MemoryMapped *)

\* Flush() of o returns without throwing.
FlushReturns(o) == \E os \in BOOLEAN : Flush(o, os) /\ ~mcall'.thrown

\* The operation issued a synchronous write-back of the mapping of o that
\* succeeded.
WroteBack(o) == \E i \in 1..Len(mcall'.sys) : WritesBack(mcall'.sys[i], o)

\* C22: Flush() on an object that holds a mapping returns without throwing
\* only if it asked the OS for a synchronous write-back of the whole mapped
\* range [0, GetLength()) and that write-back succeeded.
C22_FlushWritesBack ==
    [][\A o \in MapObjects : FlushReturns(o) /\ IsMapped(o) => WroteBack(o)]_vars

\* MapWithOffset is called on a file whose size is known and whose length
\* from offset on is not a value of std::size_t.
MapsTooLarge ==
    \E size \in FileSizes, offset \in Offsets,
       mm \in MmapAddresses \cup {MapFailed} :
        /\ MapWithOffset(size, offset, TRUE, mm)
        /\ size >= offset
        /\ size - offset >= Pow2(ValueBits)

\* C28: on a target whose pointers are narrower than 64 bits, MapWithOffset
\* (and Map) of a file whose remaining length does not fit the pointer-sized
\* range fails with the file-too-large result and maps nothing.
C28_OverflowGuard ==
    [][MapsTooLarge =>
           /\ mcall'.thrown
           /\ mcall'.res = MmapResultFileTooLarge
           /\ mobjs' = {}]_vars

----------------------------------------------------------------------------
(* Properties of the first-use race of the lazy box *)

\* Thread t executes the compare-exchange of Initialize() and loses: the
\* slot already holds another thread's instance.
LosesRace(t) == InitializeCas(t) /\ slot[tbox[t]] # Null

\* The loser deletes its own allocation and nothing else, its allocation is
\* not and does not become initialized, it skips ptr->Initialize() and it
\* returns the installed instance, which the exchange leaves in the slot.
LoserBacksOff(t) ==
    LET b == tbox[t] IN
    /\ heap'[b] = heap[b] \ {tinst[t]}
    /\ tinst[t] \notin initialized[b] /\ initialized' = initialized
    /\ pc'[t] = "raw"
    /\ tinst'[t] = slot[b] /\ slot'[b] = slot[b]

\* No thread inside or past Initialize() holds a pointer to a deleted
\* instance, only allocated instances are initialized, and once the
\* first-use calls are over exactly one instance is allocated.
NoDanglingInstance ==
    \A b \in Boxes :
        /\ \A t \in Threads :
              tbox[t] = b /\ pc[t] \in {"cas", "init", "raw"}
                  => tinst[t] \in heap[b]
        /\ initialized[b] \subseteq heap[b]
        /\ Settled(b) => Cardinality(heap[b]) = 1 /\ slot[b] \in heap[b]

\* C26: in the first-use race a thread whose compare-and-swap loses frees
\* its own allocation, never calls Initialize() on it and returns the
\* winner's instance; after the first-use calls complete exactly one heap
\* instance is outstanding and no caller holds a pointer to a freed one.
C26_LoserBacksOff ==
    /\ []NoDanglingInstance
    /\ [][\A t \in Threads : LosesRace(t) => LoserBacksOff(t)]_vars

\* Two threads have lost the race to a third: both were handed the winner's
\* instance, which is the only one allocated.
C26_Witness ==
    \E t, u \in Threads :
        /\ t # u
        /\ pc[t] = "raw" /\ pc[u] = "raw"
        /\ tbox[t] = tbox[u]
        /\ tinst[t] = tinst[u] /\ tinst[t] \notin {t, u}
        /\ heap[tbox[t]] = {tinst[t]}

----------------------------------------------------------------------------
(* Properties of the deadline of WaitFor(guard, time, pred) *)

\* Thread t is inside WaitFor(guard, time, pred).
InWaitForPred(t) == top[t] = "WaitForPred"

\* The deadline is entry time plus duration and stays what it is for the
\* whole call: every primitive wait of the loop is given the same time point.
OneDeadline ==
    \A t \in CondThreads :
        /\ \A d \in Durations :
              WaitForPred(t, TheMutex, d) => dl'[t] = now + d
        /\ InWaitForPred(t) /\ InWaitForPred(t)' => dl'[t] = dl[t]

\* A primitive wait that ends at or after the deadline ends the loop: the
\* call goes on to its last evaluation of the predicate, not to another wait.
NoWaitPastDeadline ==
    \A t \in CondThreads :
        InWaitForPred(t) /\ pc[t] = "reacquire" /\ pc'[t] # "reacquire"
            /\ now >= dl[t]
            => pc'[t] = "last"

\* The call returns false only with the deadline passed, and a call that
\* returns while the predicate is false returns false.
FalseOnlyPastDeadline ==
    \A t \in CondThreads :
        WaitForPredReturns(t) =>
            /\ ret'[t] = "false" => now >= dl[t]
            /\ ~value[wraw[t][1]] => ret'[t] = "false"

----------------------------------------------------------------------------
(* Properties of the first binding of a ConditionVariable *)

\* The raw mutexes a guard can stand for.
RawMutexes == {Raw(m, i) : m \in Mutexes, i \in Threads}

\* Thread t executes CondVarImpl::Wait on instance i with raw mutex r:
\* Verify(raw) and, if it passes, pthread_cond_wait.
VerifyStep(t, i, r) ==
    /\ ~aborted
    /\ pc[t] \in {"idle", "check", "raw"}
    /\ \E op \in {"Wait", "WaitPred"} : CondVarImplWait(t, op, i, r)

\* Verify admits the mutex the variable is bound to and binds an unbound
\* variable; a thread it admits parks, a thread it rejects aborts and leaves
\* the binding alone.
VerifyDecides ==
    \A t \in CondThreads : \A i \in Threads : \A r \in RawMutexes :
        VerifyStep(t, i, r) =>
            IF bound[i] \in {NoRaw, r}
            THEN Parks(t) /\ bound'[i] = r /\ ~aborted'
            ELSE aborted' /\ ~Parks(t) /\ bound'[i] = bound[i]

\* The threads parked on one condition variable all passed the mutex the
\* variable is bound to.
NoMixedParking ==
    \A t, u \in CondThreads :
        pc[t] = "parked" /\ pc[u] = "parked" /\ tinst[t] = tinst[u]
            => wraw[t] = wraw[u] /\ bound[tinst[t]] = wraw[t]

\* C29: the first binding is race-free -- of the threads that issue the
\* first waits on an unbound condition variable, those that pass the mutex
\* the first of them bound proceed to wait and those that pass another mutex
\* abort; threads are never parked on one condition variable with two
\* different mutexes.
C29_FirstBinding == []NoMixedParking /\ [][VerifyDecides]_vars

\* Two threads are parked on the condition variable, both with the mutex it
\* is bound to.
C29_Witness ==
    \E t, u \in CondThreads :
        /\ t # u
        /\ pc[t] = "parked" /\ pc[u] = "parked"
        /\ tinst[t] = tinst[u]
        /\ bound[tinst[t]] = wraw[t]
        /\ ~aborted

\* A thread that passed another mutex than the bound one has aborted while
\* the thread that bound the variable is parked.
C29_AbortWitness ==
    \E t, u \in CondThreads :
        /\ aborted
        /\ pc[t] = "parked"
        /\ pc[u] \in {"idle", "check", "raw"}
        /\ slot["cv"] # Null
        /\ bound[slot["cv"]] = wraw[t]
        /\ wraw[u] \notin {NoRaw, wraw[t]}

----------------------------------------------------------------------------
(* Properties of the balance of permits *)

\* This step is the raw call op of thread t on instance i of box b, made
\* directly or after the box's Initialize().
RawStep(t, op, b, i) ==
    /\ i # Null
    /\ \/ pc[t] = "idle" /\ slot[b] = i
       \/ pc[t] = "raw" /\ top[t] = op /\ tbox[t] = b /\ tinst[t] = i
    /\ RawCall(t, op, b, i, NoRaw)

\* A raw Unlock is executed by the thread that holds the raw mutex, and a
\* wait hands a mutex its caller holds to pthread_cond_wait.
MutexUnlockByHolder ==
    /\ \A t, i \in Threads : \A m \in Mutexes :
          RawStep(t, "Unlock", m, i) => owner[m][i] = t
    /\ \A t \in Threads : Parks(t) => Holder(wraw'[t]) = t

\* A raw ReadUnlock is executed by a thread that holds a shared permit and
\* a raw WriteUnlock by the thread that holds the exclusive permit.
RWUnlockByHolder ==
    \A t, i \in Threads :
        /\ RawStep(t, "ReadUnlock", "rw", i)
              => rwReaders[i][t] > 0 /\ rwWriter[i] # t
        /\ RawStep(t, "WriteUnlock", "rw", i) => rwWriter[i] = t

\* The live ReaderGuards of the lock are as many as the shared holders of
\* the raw lock.
ReaderGuardsAreHolders ==
    \A i \in Threads :
        slot["rw"] = i => LiveReaderGuards = SumOver(rwReaders[i], Threads)

\* C30: permits are balanced -- a raw Unlock, ReadUnlock or WriteUnlock is
\* only executed by a thread that holds the matching permit at that moment,
\* and the number of live ReaderGuards equals the raw lock's shared-holder
\* count.
C30_PermitsBalanced ==
    /\ [][MutexUnlockByHolder /\ RWUnlockByHolder]_vars
    /\ []ReaderGuardsAreHolders

\* C30 for the ReadWriteLock alone.
C30_RWPermitsBalanced == [][RWUnlockByHolder]_vars /\ []ReaderGuardsAreHolders

\* Guards of both kinds are being released: a thread holds the mutex through
\* its guard while two ReaderGuards are live.
C30_Witness ==
    /\ \E t \in Threads :
          TheMutex \in guards[t] /\ owner[TheMutex][slot[TheMutex]] = t
    /\ LiveReaderGuards = 2

----------------------------------------------------------------------------
(* Properties of a failed TryLock, TryRead or TryWrite *)

\* A TryLock() that returns an empty optional leaves the raw mutex and the
\* guards as they were; one that returns a guard has taken the raw mutex.
FailedTryLockNoOp ==
    \A t, i \in Threads :
        TryLockStep(t, TheMutex, i) =>
            IF ret'[t] = "empty"
            THEN UNCHANGED <<owner, guards>>
            ELSE owner'[TheMutex][i] = t /\ TheMutex \in guards'[t]

\* A TryRead() or TryWrite() that returns an empty optional leaves the raw
\* lock and the guards as they were; one that returns a guard has taken the
\* matching permit.
FailedTryRWNoOp ==
    \A t, i \in Threads :
        /\ TryRWStep(t, "TryRead", i) =>
              IF ret'[t] = "empty"
              THEN UNCHANGED <<rwWriter, rwReaders, rguards, wguards>>
              ELSE /\ rwReaders'[i][t] = rwReaders[i][t] + 1
                   /\ rguards'[t] = rguards[t] + 1
        /\ TryRWStep(t, "TryWrite", i) =>
              IF ret'[t] = "empty"
              THEN UNCHANGED <<rwWriter, rwReaders, rguards, wguards>>
              ELSE rwWriter'[i] = t /\ wguards'[t] = wguards[t] + 1

\* A guard is only released by a thread that has one.
ReleaseHasGuard ==
    \A t, i \in Threads :
        /\ RawStep(t, "Unlock", TheMutex, i) => TheMutex \in guards[t]
        /\ RawStep(t, "ReadUnlock", "rw", i) => rguards[t] > 0
        /\ RawStep(t, "WriteUnlock", "rw", i) => wguards[t] > 0

\* C31: a failed TryLock, TryRead or TryWrite is a no-op on the lock -- the
\* permit holders are the same before and after the call, no guard comes
\* into existence, and a release is only ever performed for a guard that
\* exists.
C31_FailedTryNoOp ==
    [][FailedTryLockNoOp /\ FailedTryRWNoOp /\ ReleaseHasGuard]_vars

\* A thread's TryLock() and another thread's TryWrite() have failed while
\* the permits they asked for are held through guards.
C31_Witness ==
    \E t, u \in Threads :
        /\ t # u
        /\ ret[t] = "empty" /\ pc[t] = "idle"
        /\ guards[t] = {} /\ rguards[t] = 0 /\ wguards[t] = 0
        /\ TheMutex \in guards[u] /\ owner[TheMutex][slot[TheMutex]] = u
        /\ LiveReaderGuards + LiveWriterGuards > 0

----------------------------------------------------------------------------
(* Properties of a predicate wait whose predicate already holds *)

\* Thread t, inside Wait(guard, pred) or WaitFor(guard, time, pred), tests
\* the predicate at the head of the loop and finds it true.
FindsPredTrue(t) ==
    /\ ~aborted
    /\ pc[t] = "check"
    /\ Pred(wraw[t][1])
    /\ CheckPred(t)

\* The call returns in this step (WaitFor with true) and leaves the mutex,
\* the parked threads, the binding and the lazy box of the condition
\* variable as they were; nothing is checked, so the process goes on.
ReturnsUntouched(t) ==
    /\ pc'[t] = "idle"
    /\ top[t] = "WaitForPred" => ret'[t] = "true"
    /\ UNCHANGED <<owner, guards, waiters, bound, slot, heap, initialized>>
    /\ ~aborted'

C32_UnboundWitness ==
    \E t \in CondThreads :
        ret[t] = "true" /\ pc[t] = "idle" /\ slot["cv"] = Null

----------------------------------------------------------------------------
(* The result of CondVarImpl::WaitUntil of the pthread adapter.            *)

\* Thread t is inside m_raw.WaitUntil, called by WaitFor(guard, time) or by
\* the loop of WaitFor(guard, time, pred).
InWaitUntil(t) == top[t] \in {"WaitFor", "WaitForPred"} /\ dl[t] # NoDeadline

\* CondVarImpl::WaitUntil of thread t returns in this step.
WaitUntilReturns(t) ==
    InWaitUntil(t) /\ pc[t] = "reacquire" /\ pc'[t] # "reacquire"

\* The value CondVarImpl::WaitUntil returns in this step is true: WaitFor
\* hands it to its caller, the predicate loop goes round again on true and
\* to its last evaluation of the predicate on false.
WaitUntilYieldsTrue(t) ==
    IF top[t] = "WaitFor" THEN ret'[t] = "true" ELSE pc'[t] = "check"

\* Thread t is unparked in this step by the notification of another thread.
UnparkedByNotify(t) ==
    /\ pc[t] = "parked"
    /\ pc'[t] = "reacquire"
    /\ \E u \in CondThreads \ {t} : step'[u] # step[u] \/ pc'[u] # pc[u]

\* Once the clock has reached the deadline of an unparked thread it stays
\* there until WaitUntil returns.
PastDeadlineStays(t) ==
    InWaitUntil(t) /\ pc[t] = "reacquire" /\ now >= dl[t] /\ pc'[t] = "reacquire"
        => InWaitUntil(t)' /\ now' >= dl'[t]

C33_FalseWitness ==
    \E t \in CondThreads :
        ret[t] = "false" /\ pc[t] = "idle" /\ now > 0 /\ ~aborted

----------------------------------------------------------------------------
(* The timeout of the Windows CondVarImpl::WaitUntil.                      *)

\* The whole milliseconds that remain until the deadline of the last call.
RemainingMs == DurationCastMs(sleep.time - sleep.now)

\* The remaining time clamped to the values of a DWORD.
ClampedRemaining ==
    IF RemainingMs < 0 THEN 0
    ELSE IF RemainingMs > WindowsInfinite THEN WindowsInfinite
    ELSE RemainingMs

\* C34 as stated: the timeout the Windows WaitUntil hands to
\* SleepConditionVariableSRW is the remaining time clamped to 0 ..
\* 2^DwordBits - 1, so it never exceeds the time that remains and is zero
\* for a deadline in the past.
C34_TimeoutIsClampedRemaining ==
    sleep.state # "none" =>
        /\ sleep.timeout = ClampedRemaining
        /\ sleep.timeout * TicksPerMs <= sleep.time - sleep.now
              \/ sleep.timeout = 0

\* For a deadline that is not in the past the timeout is the clamped
\* remaining time.
FutureDeadlineClamped ==
    sleep.state # "none" /\ sleep.time >= sleep.now =>
        sleep.timeout = ClampedRemaining

\* WaitUntil was called a whole millisecond or more after its deadline and
\* sleeps with a timeout that is not zero.
PastDeadlineSleeps ==
    /\ sleep.state = "sleeping"
    /\ RemainingMs < 0
    /\ sleep.timeout > 0

\* WaitUntil was called one millisecond after its deadline and sleeps with
\* the timeout INFINITE.
PastDeadlineSleepsForever ==
    /\ sleep.state = "sleeping"
    /\ RemainingMs = -1
    /\ sleep.timeout = WindowsInfinite

============================================================================
